---- MODULE Spec2Model ----
(***************************************************************************)
(* Verification model of the Solidity call-graph extractor:                *)
(*   - DependencyResolver   (src/evm/dependency-resolver.js)               *)
(*   - GitHubSolidityAnalyzer ingestion loop (src/evm/solidity-analyzer.js)*)
(*   - CallTreeBuilder      (src/evm/call-tree-builder.js)                 *)
(*   - ImplementationResolver member matching (src/unnamed/part_001)       *)
(* Paths and URLs are JavaScript strings and are modelled as TLA+ strings, *)
(* character by character (Len, SubSeq and \o act on strings).             *)
(***************************************************************************)
EXTENDS Integers, Sequences, FiniteSets, TLC

VARIABLES
  \* ---- harness of the pure path functions of DependencyResolver ----
  pfDep,                  \* dependencyPath argument
  pfRepo,                 \* baseRepoInfo argument (NoRepo models null)
  pfExternal,             \* result of isExternalDependency, once computed
  pfUrls,                 \* result of resolveDependencyPaths, once computed
  \* ---- DependencyResolver object state ----
  processedDependencies,  \* this.processedDependencies
  failedDependencies,     \* this.failedDependencies
  resolvedFiles,          \* this.resolvedFiles: dependency path -> url fetched
  \* ---- GitHubSolidityAnalyzer object state ----
  dependencies,           \* this.dependencies (import paths found so far)
  processedFiles,         \* this.processedFiles (base file names)
  contracts,              \* this.contracts keys (files parsed successfully)
  analyzedFiles,          \* files whose entities were extracted (analyzeContract)
  baseRepoInfo,           \* this.baseRepoInfo
  report,                 \* result of generateReport, once computed
  \* ---- control state of one analyzeSingleFile run ----
  ipc,                    \* position in resolveDependenciesRecursively
  maxDepthIn,             \* maxDepth argument of the ingestion
  currentDepth,           \* currentDepth argument of the innermost activation
  roundQueue,             \* dependencies still to hand to tryFetchDependency
  roundResolved,          \* result.resolved of the current resolveDependencies
  prevDepCount,           \* previousDependencyCount
  tfDep,                  \* dependencyPath of the tryFetchDependency in flight
  tfUrls,                 \* its potentialUrls
  tfIdx,                  \* index of the next url to try
  \* ---- inputs of one buildCallTree call ----
  funcs,                  \* the function objects: entity -> resolvedCalls, interface calls found in its source
  includeSourceCode,      \* options.includeSourceCode: the function objects carry sourceCode
  rootFn,                 \* currentFunction of the outermost call
  maxDepthT,              \* maxDepth
  treeRepoGiven,          \* baseRepoInfo of buildCallTree is not null
  sourceBody,             \* the statements of the start function, when the input comes from an analysed source
  reportFunctions,        \* report.functions of that analysis, as entity ids in order
  \* ---- the recursion of buildCallTree ----
  tpc,                    \* "new", "run" or "done"
  tree,                   \* the tree nodes created so far, in creation order; each node
                          \* names its parent (0 for the root) and, as history, its entity
  stack,                  \* activations of buildCallTree that are expanding a node
  pending,                \* the buildCallTree call being entered, if any
  \* ---- the implementation resolver on one interface ----
  rpc,                    \* "new", "drawn", "byName" or "byMatching"
  resolveLog,             \* the searches and fetch sequences of one resolveImplementations call
  knownFunctions,         \* allFunctions: the function objects of the analyzer
  ifaceName,              \* interfaceName
  triedName,              \* the candidate name handed to findContractByName
  implementation,         \* the binding returned, if any
  nameQueue,              \* candidateNames that findImplementation has not tried yet
  repoGiven,              \* baseRepoInfo of resolveImplementations is not null
  stageLog,               \* history: the resolution stages run for the interface, in order
  \* ---- invocations of the interface call detector and the resolver ----
  textFunctions,          \* allFunctions of the invocations, as entity ids in order
  leftVariables,          \* the Map interfaceVariables as the last invocation filled it
  leftBefore,             \* history: leftVariables when the last invocation began
  remembered,             \* history: an earlier invocation, its input and results
  lastInvocation,         \* history: the last invocation, its input and results
  invocations,            \* history: the number of invocations so far
  \* ---- the ingestion as a function of the import order ----
  orderRun,               \* None, or the two orders run and what each run left
  \* ---- extractFunction around the analysis ----
  targetFunction,         \* "unset", or "found" once findFunction has returned the start function
  fatalCause,             \* history: the throw that ended the run, "none" if none did
  runs,                   \* history: the number of runs on the analyzer object that have ended
  \* ---- history (ghost) variables ----
  fetchLog,               \* every fetchSourceCode call of the resolver, in order
  callLog,                \* every tryFetchDependency call: its path and its potentialUrls
  rounds,                 \* number of resolveDependencies rounds started
  parseLog                \* every new dependency file of a round: whether Parser.parse threw,
                          \* whether analyzeContract ran on it, the imports it then added

pathVars == <<pfDep, pfRepo, pfExternal, pfUrls>>
resolverVars == <<processedDependencies, failedDependencies, resolvedFiles>>
analyzerVars == <<dependencies, processedFiles, contracts, analyzedFiles, baseRepoInfo, report>>
ingestCtl == <<ipc, maxDepthIn, currentDepth, roundQueue, roundResolved, prevDepCount, tfDep, tfUrls, tfIdx>>
ghostVars == <<fetchLog, callLog, rounds, parseLog>>
runVars == <<targetFunction, fatalCause, runs>>
depVars == <<resolverVars, analyzerVars, ingestCtl, ghostVars, runVars>>

treeIn == <<funcs, includeSourceCode, rootFn, maxDepthT, treeRepoGiven, sourceBody, reportFunctions>>
treeVars == <<treeIn, tpc, tree, stack, pending>>

matchVars == <<rpc, knownFunctions, ifaceName, triedName, implementation, nameQueue, repoGiven, stageLog,
               resolveLog>>

detectVars == <<textFunctions, leftVariables, leftBefore, remembered, lastInvocation, invocations>>

orderVars == <<orderRun>>

vars == <<pathVars, depVars, treeVars, matchVars, detectVars, orderVars>>

Unset == "<unset>"
\* baseRepoInfo = null
NoRepo == [isNull |-> TRUE, owner |-> "", repo |-> "", branch |-> "", basePath |-> ""]

\* an optional value: <<>> when absent, <<v>> when present
None == <<>>
Some(v) == <<v>>
IsSome(o) == Len(o) = 1
The(o) == o[1]

-----------------------------------------------------------------------------
(* JavaScript string primitives *)

StartsWith(s, p) == Len(s) >= Len(p) /\ SubSeq(s, 1, Len(p)) = p

EndsWith(s, p) == Len(s) >= Len(p) /\ SubSeq(s, Len(s) - Len(p) + 1, Len(s)) = p

\* s.substring(n)
Substring(s, n) == SubSeq(s, n + 1, Len(s))

CharAt(s, i) == SubSeq(s, i, i)

UpperCase == "ABCDEFGHIJKLMNOPQRSTUVWXYZ"
LowerCase == "abcdefghijklmnopqrstuvwxyz"

\* s.toLowerCase()
RECURSIVE ToLowerCase(_)
ToLowerCase(s) ==
  IF Len(s) = 0 THEN ""
  ELSE LET c == CharAt(s, 1)
           up == {i \in 1..Len(UpperCase) : CharAt(UpperCase, i) = c}
       IN (IF up = {} THEN c ELSE CharAt(LowerCase, CHOOSE i \in up : TRUE)) \o ToLowerCase(Substring(s, 1))

\* positions of the separators of s
SlashesOf(s) == {i \in 1..Len(s) : CharAt(s, i) = "/"}

\* s.split('/'): the pieces between consecutive separators
Split(s) ==
  LET slashes == SlashesOf(s)
      n == Cardinality(slashes)
      \* position of the k-th separator; 0 before the first, Len(s)+1 after the last
      at == [k \in 0..(n + 1) |->
               IF k = 0 THEN 0
               ELSE IF k = n + 1 THEN Len(s) + 1
               ELSE CHOOSE i \in slashes : Cardinality({j \in slashes : j < i}) = k - 1]
  IN [k \in 1..(n + 1) |-> SubSeq(s, at[k - 1] + 1, at[k] - 1)]

RECURSIVE Join(_)
\* parts.join('/')
Join(parts) ==
  IF Len(parts) = 0 THEN ""
  ELSE IF Len(parts) = 1 THEN parts[1]
  ELSE parts[1] \o "/" \o Join(Tail(parts))

\* s.split('/').pop()
LastPart(s) ==
  LET slashes == SlashesOf(s)
  IN IF slashes = {} THEN s
     ELSE Substring(s, CHOOSE i \in slashes : \A j \in slashes : j <= i)

RECURSIVE StripTrailingSlashes(_)
StripTrailingSlashes(s) ==
  IF Len(s) > 0 /\ EndsWith(s, "/") THEN StripTrailingSlashes(SubSeq(s, 1, Len(s) - 1)) ELSE s

\* path.basename(s) of Node's posix path module
Basename(s) == LastPart(StripTrailingSlashes(s))

\* the characters lo..hi of s without any separator that is followed by another
RECURSIVE CollapseRange(_, _, _)
CollapseRange(s, lo, hi) ==
  IF lo > hi THEN ""
  ELSE IF lo = hi
    THEN (IF CharAt(s, lo) = "/" /\ lo < Len(s) /\ CharAt(s, lo + 1) = "/" THEN "" ELSE CharAt(s, lo))
  ELSE LET mid == (lo + hi) \div 2
       IN CollapseRange(s, lo, mid) \o CollapseRange(s, mid + 1, hi)

\* s.replace(/\/+/g, '/')
CollapseSlashes(s) == CollapseRange(s, 1, Len(s))

\* s.replace(/^\//, '')
StripLeadingSlash(s) == IF StartsWith(s, "/") THEN Substring(s, 1) ELSE s

IsQuote(c) == c = "\"" \/ c = "'"

\* s.replace(/^["']|["']$/g, '')
StripQuotes(s) ==
  LET a == IF Len(s) > 0 /\ IsQuote(CharAt(s, 1)) THEN Substring(s, 1) ELSE s
  IN IF Len(a) > 0 /\ IsQuote(CharAt(a, Len(a))) THEN SubSeq(a, 1, Len(a) - 1) ELSE a

RECURSIVE DedupFrom(_, _)
DedupFrom(seq, seen) ==
  IF Len(seq) = 0 THEN <<>>
  ELSE IF Head(seq) \in seen THEN DedupFrom(Tail(seq), seen)
  ELSE <<Head(seq)>> \o DedupFrom(Tail(seq), seen \cup {Head(seq)})

\* [...new Set(seq)]: first occurrences, in order
Dedup(seq) == DedupFrom(seq, {})

Range(seq) == {seq[i] : i \in 1..Len(seq)}

-----------------------------------------------------------------------------
(* DependencyResolver: classification and candidate generation *)

\* the externalPatterns regexes, each anchored at the start of the path
externalPatterns ==
  <<"@openzeppelin/", "@chainlink/", "hardhat/", "node_modules/", "npm:",
    "http://", "https://", "ipfs://">>

\* the wellKnownContracts table: file name -> canonical locations
wellKnownContracts ==
  [n \in {"Ownable.sol", "ERC20.sol", "ERC721.sol", "ReentrancyGuard.sol", "SafeTransferLib.sol"} |->
     CASE n = "Ownable.sol" ->
            <<"https://github.com/OpenZeppelin/openzeppelin-contracts/blob/master/contracts/access/Ownable.sol",
              "https://github.com/Vectorized/solady/blob/main/src/auth/Ownable.sol">>
       [] n = "ERC20.sol" ->
            <<"https://github.com/OpenZeppelin/openzeppelin-contracts/blob/master/contracts/token/ERC20/ERC20.sol",
              "https://github.com/transmissions11/solmate/blob/main/src/tokens/ERC20.sol">>
       [] n = "ERC721.sol" ->
            <<"https://github.com/OpenZeppelin/openzeppelin-contracts/blob/master/contracts/token/ERC721/ERC721.sol",
              "https://github.com/transmissions11/solmate/blob/main/src/tokens/ERC721.sol">>
       [] n = "ReentrancyGuard.sol" ->
            <<"https://github.com/OpenZeppelin/openzeppelin-contracts/blob/master/contracts/utils/ReentrancyGuard.sol",
              "https://github.com/transmissions11/solmate/blob/main/src/utils/ReentrancyGuard.sol">>
       [] n = "SafeTransferLib.sol" ->
            <<"https://github.com/transmissions11/solmate/blob/main/src/utils/SafeTransferLib.sol",
              "https://github.com/Vectorized/solady/blob/main/src/utils/SafeTransferLib.sol">>]

resolveWellKnownContracts(dependencyPath) ==
  LET fileName == LastPart(dependencyPath)
  IN IF fileName \in DOMAIN wellKnownContracts THEN wellKnownContracts[fileName] ELSE <<>>

\* the commonLibraries table, in insertion order: <<prefix, baseUrl>>
commonLibraries ==
  << <<"solady/", "https://github.com/Vectorized/solady/blob/main/">>,
     <<"openzeppelin-contracts/", "https://github.com/OpenZeppelin/openzeppelin-contracts/blob/master/">>,
     <<"solmate/", "https://github.com/transmissions11/solmate/blob/main/">>,
     <<"forge-std/", "https://github.com/foundry-rs/forge-std/blob/master/">>,
     <<"chainlink/", "https://github.com/smartcontractkit/chainlink/blob/develop/">>,
     <<"uniswap/", "https://github.com/Uniswap/v3-core/blob/main/">> >>

\* every base url of the table is a github.com blob url, which
\* convertRawToGitHubUrl returns unchanged (it rewrites raw.githubusercontent.com only)
convertRawToGitHubUrl(rawUrl) == rawUrl

tryResolveCommonLibrariesSafe(dependencyPath) ==
  LET hits == {i \in 1..Len(commonLibraries) : StartsWith(dependencyPath, commonLibraries[i][1])}
  IN IF hits # {}
       THEN LET i == CHOOSE j \in hits : \A k \in hits : j <= k
                relativePath == Substring(dependencyPath, Len(commonLibraries[i][1]))
            IN <<convertRawToGitHubUrl(commonLibraries[i][2] \o relativePath)>>
       ELSE resolveWellKnownContracts(dependencyPath)

tryResolveCommonLibraries(dependencyPath) == tryResolveCommonLibrariesSafe(dependencyPath)

isExternalDependency(dependencyPath) ==
  \E i \in 1..Len(externalPatterns) : StartsWith(dependencyPath, externalPatterns[i])

RECURSIVE ApplyRelative(_, _)
ApplyRelative(resolvedParts, relativeParts) ==
  IF Len(relativeParts) = 0 THEN resolvedParts
  ELSE LET part == Head(relativeParts)
           next == IF part = ".."
                     THEN (IF Len(resolvedParts) = 0 THEN resolvedParts
                           ELSE SubSeq(resolvedParts, 1, Len(resolvedParts) - 1))
                   ELSE IF part # "." THEN Append(resolvedParts, part)
                   ELSE resolvedParts
       IN ApplyRelative(next, Tail(relativeParts))

resolveRelativePath(relativePath, basePath) ==
  IF basePath = "" THEN relativePath
  ELSE Join(ApplyRelative(Split(basePath), Split(relativePath)))

\* the strategies array before .filter(Boolean); "" stands for null as well,
\* both being removed by the filter
\* strategiesOf without the strategy that takes the path from the repository root
strategiesOf_noRoot(cleanPath, basePath) ==
  << IF basePath # "" THEN basePath \o "/" \o cleanPath ELSE cleanPath,
     "",
     "contracts/" \o cleanPath,
     "src/" \o cleanPath,
     "lib/" \o cleanPath,
     "",
     IF StartsWith(cleanPath, "../") THEN resolveRelativePath(cleanPath, basePath) ELSE "",
     IF ~StartsWith(cleanPath, "contracts/") THEN "contracts/" \o cleanPath ELSE "",
     "contracts/interfaces/" \o Basename(cleanPath),
     "contracts/utils/" \o Basename(cleanPath) >>

strategiesOf(cleanPath, basePath) ==
  << IF basePath # "" THEN basePath \o "/" \o cleanPath ELSE cleanPath,
     cleanPath,
     "contracts/" \o cleanPath,
     "src/" \o cleanPath,
     "lib/" \o cleanPath,
     IF StartsWith(cleanPath, "./") THEN Substring(cleanPath, 2) ELSE "",
     IF StartsWith(cleanPath, "../") THEN resolveRelativePath(cleanPath, basePath) ELSE "",
     IF ~StartsWith(cleanPath, "contracts/") THEN "contracts/" \o cleanPath ELSE "",
     "contracts/interfaces/" \o Basename(cleanPath),
     "contracts/utils/" \o Basename(cleanPath) >>

FilterTruthy(seq) == SelectSeq(seq, LAMBDA s : s # "")

strategyUrl(pathStrategy, repo) ==
  LET normalizedPath == StripLeadingSlash(CollapseSlashes(pathStrategy))
      finalPath == IF EndsWith(normalizedPath, ".sol") THEN normalizedPath ELSE normalizedPath \o ".sol"
  IN "https://github.com/" \o repo.owner \o "/" \o repo.repo \o "/blob/" \o repo.branch \o "/" \o finalPath

resolveDependencyPaths(dependencyPath, repo) ==
  IF repo = NoRepo THEN <<>>
  ELSE LET cleanPath == StripQuotes(dependencyPath)
           commonLibraryUrls == tryResolveCommonLibraries(cleanPath)
       IN IF Len(commonLibraryUrls) > 0 THEN commonLibraryUrls
          ELSE IF isExternalDependency(cleanPath) THEN <<>>
          ELSE LET strategies == FilterTruthy(strategiesOf(cleanPath, repo.basePath))
               IN Dedup([i \in 1..Len(strategies) |-> strategyUrl(strategies[i], repo)])

-----------------------------------------------------------------------------
(* Bounds and input universes of the ingestion model *)

\* largest maxDepth handed to resolveDependenciesRecursively
MaxIngestDepth == 2

\* largest number of import directives in one source file
MaxImports == 2

\* import paths that source files of the modelled repository may contain
DepUniverse ==
  { "./Library.sol",
    "@openzeppelin/contracts/token/ERC20/ERC20.sol",
    "solady/src/auth/Ownable.sol" }

\* seed urls handed to analyzeSingleFile
SeedUrls ==
  { "https://github.com/o/r/blob/main/contracts/Token.sol",
    "https://github.com/o/r/blob/main/Token.sol",
    "https://raw.githubusercontent.com/o/r/main/contracts/Token.sol",
    "https://github.com/o/r/blob/main/README.md" }

\* sequences without repetition over S of length at most n
RECURSIVE InjSeqs(_, _)
InjSeqs(S, n) ==
  IF n = 0 THEN {<<>>}
  ELSE LET shorter == InjSeqs(S, n - 1)
       IN shorter \cup {Append(q, x) : q \in shorter, x \in S}

ImportLists == {q \in InjSeqs(DepUniverse, MaxImports) : \A i, j \in 1..Len(q) : i # j => q[i] # q[j]}

\* one fetched file: whether Parser.parse returns an AST or throws, and the
\* import directives of the text in source order
FileContents == [parses : BOOLEAN, imports : ImportLists]

-----------------------------------------------------------------------------
(* DependencyResolver.parseRepoInfo / extractFilename *)

GitHubPrefix == "https://github.com"

\* url.pathname.split('/') of a github.com url
PathPartsOf(url) == Split(Substring(url, Len(GitHubPrefix)))

parseRepoInfo(githubUrl) ==
  IF StartsWith(githubUrl, GitHubPrefix \o "/") /\ Len(PathPartsOf(githubUrl)) >= 5
    THEN LET pathParts == PathPartsOf(githubUrl)
         IN [isNull |-> FALSE, owner |-> pathParts[2], repo |-> pathParts[3], branch |-> pathParts[5],
             basePath |-> Join(SubSeq(pathParts, 6, Len(pathParts) - 1))]
    ELSE NoRepo

\* last component of the url's pathname
extractFilename(url) == LastPart(url)

RawPrefix == "https://raw.githubusercontent.com"

\* the raw-content url that fetchSourceCode requests for a url; new URL()
\* removes the "." and ".." segments of the pathname; "" stands for the throw
convertToRawUrl(githubUrl) ==
  IF StartsWith(githubUrl, GitHubPrefix \o "/")
    THEN LET pathParts == ApplyRelative(<<>>, PathPartsOf(githubUrl))
         IN IF Len(pathParts) >= 5 /\ pathParts[4] = "blob"
              THEN RawPrefix \o "/" \o pathParts[2] \o "/" \o pathParts[3] \o "/" \o pathParts[5]
                     \o "/" \o Join(SubSeq(pathParts, 6, Len(pathParts)))
              ELSE ""
  ELSE IF StartsWith(githubUrl, RawPrefix \o "/") THEN githubUrl
  ELSE ""

\* add the import paths of one analysed file to this.dependencies (a Set, kept
\* in insertion order as Array.from reads it)
RECURSIVE AddAll(_, _)
AddAll(deps, imports) ==
  IF Len(imports) = 0 THEN deps
  ELSE AddAll(IF Head(imports) \in Range(deps) THEN deps ELSE Append(deps, Head(imports)), Tail(imports))

-----------------------------------------------------------------------------
(* State after construction of the analyzer and of its resolver *)

InitPaths ==
  /\ pfDep = Unset
  /\ pfRepo = NoRepo
  /\ pfExternal = None
  /\ pfUrls = None

InitDeps ==
  /\ processedDependencies = {}
  /\ failedDependencies = {}
  /\ resolvedFiles = <<>>
  /\ dependencies = <<>>
  /\ processedFiles = {}
  /\ contracts = {}
  /\ analyzedFiles = {}
  /\ baseRepoInfo = NoRepo
  /\ report = None
  /\ ipc = "new"
  /\ maxDepthIn = 0
  /\ currentDepth = 0
  /\ roundQueue = <<>>
  /\ roundResolved = <<>>
  /\ prevDepCount = 0
  /\ tfDep = Unset
  /\ tfUrls = <<>>
  /\ tfIdx = 0
  /\ fetchLog = <<>>
  /\ callLog = <<>>
  /\ rounds = 0
  /\ parseLog = {}
  /\ targetFunction = "unset"
  /\ fatalCause = "none"
  /\ runs = 0

-----------------------------------------------------------------------------
(* GitHubSolidityAnalyzer.analyzeSingleFile up to the first resolution round *)

\* isSolidityFile
isSolidityFile(filename) == EndsWith(ToLowerCase(filename), ".sol")

\* what analyzeSingleFile derives from the seed url, tabulated over the seeds:
\* parseRepoInfo, extractFilename, isSolidityFile and path.basename
seedOf ==
  [githubUrl \in SeedUrls |->
     [repo |-> parseRepoInfo(githubUrl),
      filename |-> extractFilename(githubUrl),
      isSolidity |-> isSolidityFile(extractFilename(githubUrl)),
      basename |-> Basename(extractFilename(githubUrl))]]

\* the seed file cannot be fetched, is not a .sol file, or does not parse:
\* the exception leaves analyzeSingleFile
AnalyzeSeedFails ==
  /\ ipc = "new"
  /\ \E githubUrl \in SeedUrls, maxDepth \in 0..MaxIngestDepth :
       /\ baseRepoInfo' = seedOf[githubUrl].repo
       /\ maxDepthIn' = maxDepth
       /\ \/ /\ fatalCause' = "seed fetch"           \* fetchSourceCode throws
             /\ UNCHANGED processedFiles
          \/ /\ ~seedOf[githubUrl].isSolidity        \* fetched, and rejected by its name
             /\ fatalCause' = "seed not solidity"
             /\ UNCHANGED processedFiles
          \/ /\ seedOf[githubUrl].isSolidity         \* Parser.parse throws in parseAndAnalyze
             /\ fatalCause' = "seed parse"
             /\ processedFiles' = processedFiles \cup {seedOf[githubUrl].basename}
  /\ ipc' = "fatal"
  /\ UNCHANGED <<targetFunction, runs>>
  /\ UNCHANGED <<resolverVars, dependencies, contracts, analyzedFiles, report>>
  /\ UNCHANGED <<currentDepth, roundQueue, roundResolved, prevDepCount, tfDep, tfUrls, tfIdx>>
  /\ UNCHANGED ghostVars

\* the seed file is fetched and parsed; parseAndAnalyze resets the collections
\* and analyzeContract records the seed's import directives
AnalyzeSeed ==
  /\ ipc = "new"
  /\ \E githubUrl \in SeedUrls, maxDepth \in 0..MaxIngestDepth,
        resolveDeps \in BOOLEAN, imports \in ImportLists :
       LET filename == seedOf[githubUrl].filename
           repo == seedOf[githubUrl].repo
       IN /\ seedOf[githubUrl].isSolidity
          /\ baseRepoInfo' = repo
          /\ maxDepthIn' = maxDepth
          /\ processedFiles' = processedFiles \cup {seedOf[githubUrl].basename}
          /\ contracts' = {filename}
          /\ analyzedFiles' = {filename}
          /\ dependencies' = AddAll(<<>>, imports)
          /\ ipc' = IF resolveDeps /\ repo # NoRepo THEN "enter" ELSE "report"
  /\ currentDepth' = 0
  /\ UNCHANGED <<resolverVars, report>>
  /\ UNCHANGED <<roundQueue, roundResolved, prevDepCount, tfDep, tfUrls, tfIdx>>
  /\ UNCHANGED ghostVars
  /\ UNCHANGED runVars

-----------------------------------------------------------------------------
(* GitHubSolidityAnalyzer.resolveDependenciesRecursively, entry *)

EnterRound ==
  /\ ipc = "enter"
  /\ IF currentDepth >= maxDepthIn \/ Len(dependencies) = 0
       THEN /\ ipc' = "report"
            /\ UNCHANGED <<roundQueue, roundResolved, rounds>>
       ELSE /\ ipc' = "resolve"
            /\ roundQueue' = dependencies
            /\ roundResolved' = <<>>
            /\ rounds' = rounds + 1
  /\ UNCHANGED <<resolverVars, analyzerVars>>
  /\ UNCHANGED <<maxDepthIn, currentDepth, prevDepCount, tfDep, tfUrls, tfIdx>>
  /\ UNCHANGED <<fetchLog, callLog, parseLog>>
  /\ UNCHANGED runVars

-----------------------------------------------------------------------------
(* DependencyResolver.tryFetchDependency, called by resolveDependencies for  *)
(* the next dependency of the round                                          *)

\* the repositories that the seeds of SeedUrls lie in
SeedRepos == {parseRepoInfo(u) : u \in SeedUrls}

\* this.resolveDependencyPaths(dependencyPath, baseRepoInfo), tabulated over
\* the imports and the repositories of the ingestion
potentialUrlsOf ==
  [dependencyPath \in DepUniverse |->
     [repo \in SeedRepos |-> resolveDependencyPaths(dependencyPath, repo)]]

\* the urls that the ingestion may fetch
IngestUrls ==
  SeedUrls \cup UNION {Range(potentialUrlsOf[d][r]) : d \in DepUniverse, r \in SeedRepos}

\* this.dependencyResolver.extractFilename(url), tabulated over the urls of the ingestion
filenameOf == [url \in IngestUrls |-> extractFilename(url)]

\* path.basename(filename), tabulated over the file names of the ingestion
normalizedNameOf == [filename \in {filenameOf[u] : u \in IngestUrls} |-> Basename(filename)]

\* tryFetchPlan with the failed set left out of the "already processed" test
tryFetchPlan_retryFailed(dependencyPath, repo) ==
  IF dependencyPath \in processedDependencies
    THEN [kind |-> "skip", urls |-> <<>>]
  ELSE IF isExternalDependency(dependencyPath)
    THEN [kind |-> "fail", urls |-> <<>>]
  ELSE LET potentialUrls == potentialUrlsOf[dependencyPath][repo]
       IN IF Len(potentialUrls) = 0
            THEN [kind |-> "fail", urls |-> <<>>]
            ELSE [kind |-> "fetch", urls |-> potentialUrls]

\* tryFetchPlan without the external check before the candidate generation
tryFetchPlan_noExternalCheck(dependencyPath, repo) ==
  IF dependencyPath \in processedDependencies \/ dependencyPath \in failedDependencies
    THEN [kind |-> "skip", urls |-> <<>>]
  ELSE LET potentialUrls == potentialUrlsOf[dependencyPath][repo]
       IN IF Len(potentialUrls) = 0
            THEN [kind |-> "fail", urls |-> <<>>]
            ELSE [kind |-> "fetch", urls |-> potentialUrls]

\* the synchronous prefix of tryFetchDependency: what the call decides before
\* its first fetch
\*   skip  - already processed or failed, return null
\*   fail  - external, or no resolution path: add to failedDependencies, return null
\*   fetch - try potentialUrls in order
\* tryFetchPlan of a resolver that skips only what has failed before
tryFetchPlan_retryProcessed(dependencyPath, repo) ==
  IF dependencyPath \in failedDependencies
    THEN [kind |-> "skip", urls |-> <<>>]
  ELSE IF isExternalDependency(dependencyPath)
    THEN [kind |-> "fail", urls |-> <<>>]
  ELSE LET potentialUrls == potentialUrlsOf[dependencyPath][repo]
       IN IF Len(potentialUrls) = 0
            THEN [kind |-> "fail", urls |-> <<>>]
            ELSE [kind |-> "fetch", urls |-> potentialUrls]

tryFetchPlan(dependencyPath, repo) ==
  IF dependencyPath \in processedDependencies \/ dependencyPath \in failedDependencies
    THEN [kind |-> "skip", urls |-> <<>>]
  ELSE IF isExternalDependency(dependencyPath)
    THEN [kind |-> "fail", urls |-> <<>>]
  ELSE LET potentialUrls == potentialUrlsOf[dependencyPath][repo]
       IN IF Len(potentialUrls) = 0
            THEN [kind |-> "fail", urls |-> <<>>]
            ELSE [kind |-> "fetch", urls |-> potentialUrls]

\* from the call to the first suspension point (the first fetch) or to the return
TryFetchBegin ==
  /\ ipc = "resolve"
  /\ Len(roundQueue) > 0
  /\ LET dependencyPath == Head(roundQueue)
         plan == tryFetchPlan(dependencyPath, baseRepoInfo)
     IN /\ callLog' = Append(callLog, [dep |-> dependencyPath, urls |-> plan.urls])
        /\ IF plan.kind = "skip"
             THEN /\ roundQueue' = Tail(roundQueue)
                  /\ UNCHANGED <<failedDependencies, tfDep, tfUrls, tfIdx, ipc>>
           ELSE IF plan.kind = "fail"
             THEN /\ failedDependencies' = failedDependencies \cup {dependencyPath}
                  /\ roundQueue' = Tail(roundQueue)
                  /\ UNCHANGED <<tfDep, tfUrls, tfIdx, ipc>>
           ELSE /\ tfDep' = dependencyPath
                /\ tfUrls' = plan.urls
                /\ tfIdx' = 1
                /\ ipc' = "fetch"
                /\ UNCHANGED <<failedDependencies, roundQueue>>
  /\ UNCHANGED <<processedDependencies, resolvedFiles, analyzerVars>>
  /\ UNCHANGED <<maxDepthIn, currentDepth, roundResolved, prevDepCount>>
  /\ UNCHANGED <<fetchLog, rounds, parseLog>>
  /\ UNCHANGED runVars

\* moreCandidates of a loop that gives up after the first failed url
moreCandidates_firstOnly(idx, urls) == FALSE

\* the for...of loop over potentialUrls has a further url to try
moreCandidates(idx, urls) == idx < Len(urls)

\* afterFailedImport of a resolver whose failure to resolve an import ends the run
afterFailedImport_abort(queue) == "fatal"

\* no url of the import could be fetched: tryFetchDependency returns null and
\* resolveDependencies goes on with the dependencies that remain
afterFailedImport(queue) == "resolve"

\* one iteration of the loop over potentialUrls: the awaited fetchSourceCode
\* completes (ok) or throws, and the code runs on to the next fetch or the return
FetchAttempt ==
  /\ ipc = "fetch"
  /\ \E ok \in BOOLEAN :
       LET url == tfUrls[tfIdx]
       IN /\ fetchLog' = Append(fetchLog, [dep |-> tfDep, url |-> url, ok |-> ok, call |-> Len(callLog)])
          /\ IF ok
               THEN /\ processedDependencies' = processedDependencies \cup {tfDep}
                    /\ resolvedFiles' = Append(resolvedFiles, <<tfDep, url>>)
                    /\ roundResolved' = Append(roundResolved, url)
                    /\ roundQueue' = Tail(roundQueue)
                    /\ tfDep' = Unset /\ tfUrls' = <<>> /\ tfIdx' = 0
                    /\ ipc' = "resolve"
                    /\ UNCHANGED failedDependencies
             ELSE IF moreCandidates(tfIdx, tfUrls)
               THEN /\ tfIdx' = tfIdx + 1
                    /\ UNCHANGED <<resolverVars, roundResolved, roundQueue, tfDep, tfUrls, ipc>>
             ELSE /\ failedDependencies' = failedDependencies \cup {tfDep}
                  /\ roundQueue' = Tail(roundQueue)
                  /\ tfDep' = Unset /\ tfUrls' = <<>> /\ tfIdx' = 0
                  /\ ipc' = afterFailedImport(Tail(roundQueue))
                  /\ UNCHANGED <<processedDependencies, resolvedFiles, roundResolved>>
  /\ UNCHANGED analyzerVars
  /\ UNCHANGED <<maxDepthIn, currentDepth, prevDepCount>>
  /\ UNCHANGED <<callLog, rounds, parseLog>>
  /\ UNCHANGED runVars

-----------------------------------------------------------------------------
(* GitHubSolidityAnalyzer.resolveDependenciesRecursively, after the await of *)
(* resolveDependencies: select, parse and analyse the new files              *)

\* the files of result.resolved whose base name was not processed before,
\* each base name once, in order
RECURSIVE SelectNewFiles(_, _)
SelectNewFiles(resolved, seen) ==
  IF Len(resolved) = 0 THEN <<>>
  ELSE LET filename == filenameOf[Head(resolved)]
           normalizedName == normalizedNameOf[filename]
       IN IF normalizedName \in seen
            THEN SelectNewFiles(Tail(resolved), seen)
            ELSE <<filename>> \o SelectNewFiles(Tail(resolved), seen \cup {normalizedName})

\* parsedFiles of a parse loop that the first parse error ends
RECURSIVE parsedFiles_stopAtError(_, _)
parsedFiles_stopAtError(files, content) ==
  IF Len(files) = 0 \/ ~content[Head(files)].parses THEN <<>>
  ELSE <<Head(files)>> \o parsedFiles_stopAtError(Tail(files), content)

\* the new files that this.contracts holds after the parse loop: the catch
\* inside the loop logs a parse error and the loop goes on
parsedFiles(files, content) == SelectSeq(files, LAMBDA f : content[f].parses)

\* analyzeContract over the new files that this.contracts has, in order
RECURSIVE AnalyzeAll(_, _, _)
AnalyzeAll(deps, files, content) ==
  IF Len(files) = 0 THEN deps
  ELSE AnalyzeAll(AddAll(deps, content[Head(files)].imports), Tail(files), content)

RoundEnd ==
  /\ ipc = "resolve"
  /\ Len(roundQueue) = 0
  /\ IF Len(roundResolved) = 0
       THEN /\ ipc' = "report"
            /\ UNCHANGED <<dependencies, processedFiles, contracts, analyzedFiles, currentDepth, prevDepCount, parseLog>>
       ELSE \E newFiles \in {SelectNewFiles(roundResolved, processedFiles)} :
               /\ prevDepCount' = Len(dependencies)
               /\ processedFiles' = processedFiles \cup {normalizedNameOf[newFiles[i]] : i \in 1..Len(newFiles)}
               /\ \E content \in [Range(newFiles) -> FileContents] :
                    LET parsed == Range(parsedFiles(newFiles, content))
                        newDeps == AnalyzeAll(dependencies, parsedFiles(newFiles, content), content)
                    IN /\ parseLog' = parseLog \cup
                            {[file |-> f, round |-> rounds, threw |-> ~content[f].parses,
                              analysed |-> f \in parsed,
                              imports |-> IF f \in parsed THEN Range(content[f].imports) ELSE {}]
                               : f \in Range(newFiles)}
                       /\ contracts' = contracts \cup parsed
                       /\ analyzedFiles' = analyzedFiles \cup parsed
                       /\ dependencies' = newDeps
                       /\ IF Len(newFiles) > 0 /\ Len(newDeps) > Len(dependencies)
                            THEN ipc' = "enter" /\ currentDepth' = currentDepth + 1
                            ELSE ipc' = "report" /\ UNCHANGED currentDepth
  /\ UNCHANGED <<resolverVars, baseRepoInfo, report>>
  /\ UNCHANGED <<maxDepthIn, roundQueue, roundResolved, tfDep, tfUrls, tfIdx>>
  /\ UNCHANGED <<fetchLog, callLog, rounds>>
  /\ UNCHANGED runVars

-----------------------------------------------------------------------------
(* GitHubSolidityAnalyzer.generateReport, the dependencies section *)

generateReport ==
  [found      |-> Range(dependencies),
   resolved   |-> processedDependencies,
   failed     |-> failedDependencies,
   external   |-> {dep \in failedDependencies : isExternalDependency(dep)},
   unreachable |-> {dep \in failedDependencies : ~isExternalDependency(dep)}]

Report ==
  /\ ipc = "report"
  /\ report' = Some(generateReport)
  /\ ipc' = "done"
  /\ UNCHANGED <<resolverVars, dependencies, processedFiles, contracts, analyzedFiles, baseRepoInfo>>
  /\ UNCHANGED <<maxDepthIn, currentDepth, roundQueue, roundResolved, prevDepCount, tfDep, tfUrls, tfIdx>>
  /\ UNCHANGED ghostVars
  /\ UNCHANGED runVars

-----------------------------------------------------------------------------
(* FunctionExtractor.extractFunction after analyzeSingleFile has returned *)

\* findFunction over report.functions returns the start function, or null
\* and extractFunction throws
LocateStart ==
  /\ ipc = "done"
  /\ targetFunction = "unset"
  /\ \/ targetFunction' = "found" /\ UNCHANGED <<ipc, fatalCause>>
     \/ ipc' = "fatal" /\ fatalCause' = "start function" /\ UNCHANGED targetFunction
  /\ UNCHANGED runs
  /\ UNCHANGED <<resolverVars, analyzerVars, ghostVars>>
  /\ UNCHANGED <<maxDepthIn, currentDepth, roundQueue, roundResolved, prevDepCount, tfDep, tfUrls, tfIdx>>

-----------------------------------------------------------------------------
(* A further run on the same analyzer object *)

\* largest number of runs on one analyzer object
MaxRuns == 2

\* The run has ended, with its report or with an exception, and the caller
\* is about to call analyzeSingleFile on the same object again. Nothing of
\* the object changes between the calls; the locals of the ended call are
\* gone and the history starts anew.
CallAgain ==
  /\ ipc \in {"done", "fatal"}
  /\ runs + 1 < MaxRuns
  /\ runs' = runs + 1
  /\ ipc' = "new"
  /\ report' = None
  /\ maxDepthIn' = 0 /\ currentDepth' = 0 /\ prevDepCount' = 0
  /\ roundQueue' = <<>> /\ roundResolved' = <<>>
  /\ tfDep' = Unset /\ tfUrls' = <<>> /\ tfIdx' = 0
  /\ fetchLog' = <<>> /\ callLog' = <<>> /\ rounds' = 0 /\ parseLog' = {}
  /\ targetFunction' = "unset" /\ fatalCause' = "none"
  /\ UNCHANGED <<resolverVars, dependencies, processedFiles, contracts, analyzedFiles, baseRepoInfo>>

-----------------------------------------------------------------------------
(* Harness of the pure path functions: one call of each on a drawn input *)

\* import paths handed to the pure functions
PathUniverse ==
  DepUniverse \cup
  { "ERC20.sol",
    "./ERC20.sol",
    "../interfaces/IToken.sol",
    "contracts/utils/Math",
    "@chainlink/contracts/Feed.sol",
    "hardhat/console.sol",
    "node_modules/x/Ownable.sol",
    "npm:pkg/ERC721.sol",
    "https://example.org/SafeTransferLib.sol",
    "ipfs://Qm/ReentrancyGuard.sol",
    "openzeppelin-contracts/contracts/access/Ownable.sol",
    "'./Vault.sol'",
    "lib//Util.sol" }

RepoUniverse ==
  {NoRepo} \cup {parseRepoInfo(u) : u \in SeedUrls \cup {"https://github.com/o/r/blob/main/src/core/Vault.sol"}}

DrawPath ==
  /\ pfDep = Unset
  /\ \E dep \in PathUniverse, repo \in RepoUniverse :
       pfDep' = dep /\ pfRepo' = repo
  /\ UNCHANGED <<pfExternal, pfUrls>>

Classify ==
  /\ pfDep # Unset
  /\ pfExternal = None
  /\ pfExternal' = Some(isExternalDependency(pfDep))
  /\ UNCHANGED <<pfDep, pfRepo, pfUrls>>

ResolvePaths ==
  /\ pfDep # Unset
  /\ pfUrls = None
  /\ pfUrls' = Some(resolveDependencyPaths(pfDep, pfRepo))
  /\ UNCHANGED <<pfDep, pfRepo, pfExternal>>

-----------------------------------------------------------------------------
(* Inputs of CallTreeBuilder.buildCallTree *)

\* largest maxDepth handed to buildCallTree
MaxTreeDepth == 5

\* largest number of calls (statically found and interface calls together)
\* in all function objects of one input
MaxEdges == 2

\* the function objects; a1 and a2 are distinct entities that share a name
EntityIds == {"a1", "b", "a2"}

\* the function objects of an analysed token contract and of the interface it uses
SourceEntities == {"transfer", "balanceOf", "transferFrom"}

entityName == [e \in EntityIds \cup SourceEntities |->
                 IF e \in SourceEntities THEN e ELSE IF e = "b" THEN "B" ELSE "A"]

entityFile == [e \in EntityIds \cup SourceEntities |->
                 IF e = "transferFrom" THEN "IERC20.sol"
                 ELSE IF e = "a2" THEN "Vault.sol" ELSE "Token.sol"]

NoDef == "<undefined>"

\* entries of resolvedCalls as generateReport builds them: a call whose name
\* findFunctionDefinition resolves, or an external one
ResolvedCallUniverse ==
  {[name |-> entityName[e], isExternal |-> FALSE, definition |-> e] : e \in EntityIds}
  \cup {[name |-> "x.f", isExternal |-> TRUE, definition |-> NoDef]}

\* entries of the list extractInterfaceCalls returns for a source text
InterfaceCallUniverse ==
  { [name |-> "I.m", interface |-> "I", hasDefinition |-> TRUE, implementation |-> None],
    [name |-> "x.f", interface |-> "x", hasDefinition |-> FALSE, implementation |-> None] }

\* all sequences over S of length exactly n
RECURSIVE SeqsOfLen(_, _)
SeqsOfLen(S, n) ==
  IF n = 0 THEN {<<>>}
  ELSE {Append(q, x) : q \in SeqsOfLen(S, n - 1), x \in S}

\* one function object with k calls in all. An absent or empty resolvedCalls
\* and an absent or empty interface-call list give the same tree, so absence
\* is modelled by the empty sequence.
FunctionsOfSize(k) ==
  UNION {[resolvedCalls : SeqsOfLen(ResolvedCallUniverse, i),
          interfaceCalls : SeqsOfLen(InterfaceCallUniverse, k - i)] : i \in 0..k}

\* assignments of function objects to the entities of E with at most budget calls in all
RECURSIVE FunctionTables(_, _)
FunctionTables(E, budget) ==
  IF E = {} THEN {<<>>}
  ELSE LET e == CHOOSE x \in E : TRUE
       IN UNION {UNION {{[x \in {e} |-> f] @@ rest : rest \in FunctionTables(E \ {e}, budget - k)}
                         : f \in FunctionsOfSize(k)}
                  : k \in 0..budget}

NoFunctions == [e \in EntityIds |-> [resolvedCalls |-> <<>>, interfaceCalls |-> <<>>]]

InitTree ==
  /\ funcs = NoFunctions
  /\ sourceBody = <<>>
  /\ reportFunctions = <<>>
  /\ includeSourceCode = FALSE
  /\ rootFn = "a1"
  /\ maxDepthT = 0
  /\ treeRepoGiven = FALSE
  /\ tpc = "new"
  /\ tree = <<>>
  /\ stack = <<>>
  /\ pending = None

-----------------------------------------------------------------------------
(* CallTreeBuilder.buildCallTree *)

\* the names of tree.calls of node n
ChildNames(t, n) == {t[i].name : i \in {j \in 1..Len(t) : t[j].parent = n}}

\* depth of the nodes pushed into tree.calls of a node at depth
childDepth(depth) == depth + 1

\* isCutoff that lets a node at maxDepth be expanded
isCutoff_offByOne(depth, maxDepth, visited, name) ==
  depth > maxDepth \/ name \in visited

\* isCutoff without the test of the visited set
isCutoff_depthOnly(depth, maxDepth, visited, name) ==
  depth >= maxDepth

\* isCutoff without the test of the depth budget
isCutoff_visitedOnly(depth, maxDepth, visited, name) ==
  name \in visited

\* the budget or cycle cutoff at the head of buildCallTree
isCutoff(depth, maxDepth, visited, name) ==
  depth >= maxDepth \/ name \in visited

\* markVisited that forgets the current function
markVisited_forget(visited, name) == visited

visitedAfterCall_sameSet(visited, calleeVisited) == calleeVisited

\* the recursive call gets new Set(visited): what the callee adds to its set
\* does not reach the set of the caller
visitedAfterCall(visited, calleeVisited) == visited

\* visited.add(currentFunction.name)
markVisited(visited, name) == visited \cup {name}

\* the guard of the interface augmentation
augmentGate_toTheBound(hasSourceCode, depth, maxDepth) ==
  hasSourceCode /\ depth < maxDepth

augmentGate(hasSourceCode, depth, maxDepth) ==
  hasSourceCode /\ depth < maxDepth - 1

\* appendInterfaceCalls that tests only the nodes tree.calls held before the loop
RECURSIVE appendInterfaceCalls_staleCheck(_, _, _, _)
appendInterfaceCalls_staleCheck(t, n, interfaceCalls, depth) ==
  LET before == {t[i].name : i \in {j \in 1..Len(t) : t[j].parent = n}}
      fresh == SelectSeq(interfaceCalls, LAMBDA c : c.name \notin before)
  IN t \o [i \in 1..Len(fresh) |->
             [name |-> fresh[i].name, depth |-> depth, parent |-> n, kind |-> "interface",
              external |-> ~fresh[i].hasDefinition, fn |-> "<undefined>",
              implementation |-> fresh[i].implementation]]

\* the loop over interfaceCalls: a call is pushed unless a node of that name
\* is among tree.calls already, the nodes pushed by this loop included
RECURSIVE appendInterfaceCalls(_, _, _, _)
appendInterfaceCalls(t, n, interfaceCalls, depth) ==
  IF Len(interfaceCalls) = 0 THEN t
  ELSE LET interfaceCall == Head(interfaceCalls)
           alreadyCaptured == interfaceCall.name \in ChildNames(t, n)
           node == [name |-> interfaceCall.name, depth |-> depth, parent |-> n,
                    kind |-> "interface", external |-> ~interfaceCall.hasDefinition, fn |-> NoDef,
                    implementation |-> interfaceCall.implementation]
       IN appendInterfaceCalls(IF alreadyCaptured THEN t ELSE Append(t, node),
                               n, Tail(interfaceCalls), depth)

\* CallTreeBuilder.getMaxDepth over the subtree of node n
RECURSIVE getMaxDepth(_, _)
getMaxDepth(t, n) ==
  LET calls == {j \in 1..Len(t) : t[j].parent = n}
      below == {getMaxDepth(t, j) : j \in calls} \cup {t[n].depth}
  IN CHOOSE d \in below : \A x \in below : x <= d

\* the caller draws the arguments and calls buildCallTree(allFunctions, currentFunction, maxDepth)
BuildStart ==
  /\ tpc = "new"
  /\ \E table \in FunctionTables(EntityIds, MaxEdges), src \in BOOLEAN,
        root \in EntityIds, maxDepth \in 0..MaxTreeDepth :
       /\ funcs' = table
       /\ treeRepoGiven' \in BOOLEAN
       /\ sourceBody' = <<>>
       /\ reportFunctions' = <<>>
       /\ includeSourceCode' = src
       /\ rootFn' = root
       /\ maxDepthT' = maxDepth
       /\ pending' = Some([fn |-> root, depth |-> 0, visited |-> {}, parent |-> 0])
  /\ tpc' = "run"
  /\ UNCHANGED <<tree, stack>>

\* entry of one buildCallTree activation: return a childless leaf on cutoff,
\* otherwise mark the name visited and create the node to expand
\* function objects with pairwise different names whose resolved calls all
\* have a definition among them, at most MaxEdges calls per function
CallGraphs ==
  [SourceEntities -> UNION {SeqsOfLen(SourceEntities, n) : n \in 0..MaxEdges}]

\* the first call of buildCallTree on such function objects; the three
\* entities are alike, so one of them stands for the start function
BuildCallGraph ==
  /\ tpc = "new"
  /\ \E callees \in CallGraphs, root \in {"transfer"}, maxDepth \in 0..MaxTreeDepth :
       /\ funcs' = [e \in SourceEntities |->
                      [resolvedCalls |-> [i \in 1..Len(callees[e]) |->
                                            [name |-> entityName[callees[e][i]], isExternal |-> FALSE,
                                             definition |-> callees[e][i]]],
                       interfaceCalls |-> <<>>]]
       /\ rootFn' = root
       /\ maxDepthT' = maxDepth
       /\ pending' = Some([fn |-> root, depth |-> 0, visited |-> {}, parent |-> 0])
  /\ treeRepoGiven' = FALSE
  /\ sourceBody' = <<>>
  /\ reportFunctions' = <<>>
  /\ includeSourceCode' = FALSE
  /\ tpc' = "run"
  /\ UNCHANGED <<tree, stack>>

Enter ==
  /\ tpc = "run"
  /\ IsSome(pending)
  /\ LET c == The(pending)
         name == entityName[c.fn]
     IN IF isCutoff(c.depth, maxDepthT, c.visited, name)
          THEN /\ tree' = Append(tree, [name |-> name, depth |-> c.depth, parent |-> c.parent,
                                         kind |-> "cutoff", external |-> FALSE, fn |-> c.fn,
                                         implementation |-> None])
               /\ tpc' = IF Len(stack) = 0 THEN "done" ELSE "run"
               /\ UNCHANGED stack
          ELSE /\ tree' = Append(tree, [name |-> name, depth |-> c.depth, parent |-> c.parent,
                                         kind |-> "expanded", external |-> FALSE, fn |-> c.fn,
                                         implementation |-> None])
               /\ stack' = Append(stack, [node |-> Len(tree) + 1, fn |-> c.fn, depth |-> c.depth,
                                           visited |-> markVisited(c.visited, name), next |-> 1])
               /\ UNCHANGED tpc
  /\ pending' = None
  /\ UNCHANGED treeIn

\* one iteration of the loop over currentFunction.resolvedCalls
StaticCall ==
  /\ tpc = "run"
  /\ ~IsSome(pending)
  /\ Len(stack) > 0
  /\ LET top == stack[Len(stack)]
         calls == funcs[top.fn].resolvedCalls
     IN /\ top.next <= Len(calls)
        /\ LET call == calls[top.next]
           IN IF ~call.isExternal /\ call.definition # NoDef
                THEN \* recursive call with a copy of the visited set
                     /\ pending' = Some([fn |-> call.definition, depth |-> childDepth(top.depth),
                                         visited |-> top.visited, parent |-> top.node])
                     /\ UNCHANGED tree
                ELSE \* external call: record the name
                     /\ tree' = Append(tree, [name |-> call.name, depth |-> childDepth(top.depth),
                                               parent |-> top.node, kind |-> "external", external |-> TRUE,
                                               fn |-> NoDef, implementation |-> None])
                     /\ UNCHANGED pending
        /\ stack' = [stack EXCEPT ![Len(stack)].next = top.next + 1]
  /\ UNCHANGED <<treeIn, tpc>>

\* after the loop: the interface augmentation, then return tree
AugmentAndReturn ==
  /\ tpc = "run"
  /\ ~IsSome(pending)
  /\ Len(stack) > 0
  /\ LET top == stack[Len(stack)]
     IN /\ top.next > Len(funcs[top.fn].resolvedCalls)
        /\ tree' = IF augmentGate(includeSourceCode, top.depth, maxDepthT)
                     THEN appendInterfaceCalls(tree, top.node, funcs[top.fn].interfaceCalls,
                                               childDepth(top.depth))
                     ELSE tree
  /\ stack' = IF Len(stack) = 1 THEN <<>>
             ELSE [SubSeq(stack, 1, Len(stack) - 1) EXCEPT
                     ![Len(stack) - 1].visited = visitedAfterCall(@, stack[Len(stack)].visited)]
  /\ tpc' = IF Len(stack) = 1 THEN "done" ELSE "run"
  /\ UNCHANGED <<treeIn, pending>>

-----------------------------------------------------------------------------
(* ImplementationResolver: matching the members of an interface *)

\* largest number of function objects known to the resolver
MaxFunctions == 3

\* s.includes(sub)
Includes(s, sub) ==
  \E i \in 1..(Len(s) - Len(sub) + 1) : SubSeq(s, i, i + Len(sub) - 1) = sub

\* s.replace(sub, ''): the first occurrence of sub is removed
RemoveFirst(s, sub) ==
  LET at == {i \in 1..(Len(s) - Len(sub) + 1) : SubSeq(s, i, i + Len(sub) - 1) = sub}
  IN IF at = {} THEN s
     ELSE LET i == CHOOSE j \in at : \A k \in at : j <= k
          IN SubSeq(s, 1, i - 1) \o SubSeq(s, i + Len(sub), Len(s))

\* the files of the analysed repository
FileUniverse == {"IOracle.sol", "Oracle.sol", "Feed.sol", "FeedImpl.sol"}

\* the function objects of the analyzer that the resolver reads: name,
\* parameter types, kind and defining file
FunctionUniverse ==
  [name : {"getValue"}, parameters : {<<>>, <<"uint256">>, <<"address">>}, type : {"function"}, file : FileUniverse]
    \cup [name : {"set"}, parameters : {<<"uint256">>}, type : {"function"}, file : FileUniverse]
    \cup [name : {"getValue"}, parameters : {<<>>}, type : {"event"}, file : FileUniverse]

\* the interface names handed to the resolver
InterfaceNames == {"IOracle", "Feed"}

\* a quotient of two lengths, kept exact
Ratio(n, d) == [num |-> n, den |-> d]

\* Math.max(a, b)
Max(a, b) == IF a >= b THEN a ELSE b

\* isCompatibleSignature that compares the parameter counts only
isCompatibleSignature_arityOnly(interfaceFunc, implFunc) ==
  /\ interfaceFunc.name = implFunc.name
  /\ Len(interfaceFunc.parameters) = Len(implFunc.parameters)

isCompatibleSignature(interfaceFunc, implFunc) ==
  /\ interfaceFunc.name = implFunc.name
  /\ Len(interfaceFunc.parameters) = Len(implFunc.parameters)
  /\ \A i \in 1..Len(interfaceFunc.parameters) :
       interfaceFunc.parameters[i] = implFunc.parameters[i]

\* one entry per interface function that has an implementation: the first
\* implementation function of its name with a compatible signature
RECURSIVE matchFunctions(_, _)
matchFunctions(interfaceFunctions, implementationFunctions) ==
  IF Len(interfaceFunctions) = 0 THEN <<>>
  ELSE LET interfaceFunc == Head(interfaceFunctions)
           found == {j \in 1..Len(implementationFunctions) :
                       /\ implementationFunctions[j].name = interfaceFunc.name
                       /\ isCompatibleSignature(interfaceFunc, implementationFunctions[j])}
           rest == matchFunctions(Tail(interfaceFunctions), implementationFunctions)
       IN IF found = {} THEN rest
          ELSE <<[interface |-> interfaceFunc,
                  implementation |-> implementationFunctions[CHOOSE j \in found : \A k \in found : j <= k]]>>
               \o rest

\* the file test shared by getInterfaceFunctions and findContractByName
FileNamed(file, name) ==
  Includes(file, name) \/ file = name \o ".sol" \/ EndsWith(file, "/" \o name \o ".sol")

getInterfaceFunctions(interfaceName, allFunctions) ==
  SelectSeq(allFunctions, LAMBDA f : FileNamed(f.file, interfaceName))

\* /^I/ removed
StripI(s) == IF StartsWith(s, "I") THEN Substring(s, 1) ELSE s

\* the candidateNames of findImplementation, after .filter(Boolean)
candidateNamesOf(interfaceName) ==
  (IF StartsWith(interfaceName, "I") /\ Len(interfaceName) > 1 THEN <<Substring(interfaceName, 1)>> ELSE <<>>)
    \o << StripI(interfaceName) \o "Impl",
          StripI(interfaceName),
          interfaceName \o "Implementation",
          StripI(interfaceName) \o "Contract" >>

findContractByName(contractName, allFunctions, interfaceFunctions) ==
  LET contractFunctions ==
        SelectSeq(allFunctions, LAMBDA f : FileNamed(f.file, contractName) /\ f.type # "event")
      matchingFunctions == matchFunctions(interfaceFunctions, contractFunctions)
  IN IF Len(contractFunctions) = 0 THEN None
     ELSE IF Len(matchingFunctions) > 0
       THEN Some([contractName |-> contractName,
                  file |-> contractFunctions[1].file,
                  functions |-> contractFunctions,
                  implementedFunctions |-> matchingFunctions,
                  matchRatio |-> Ratio(Len(matchingFunctions), Max(Len(interfaceFunctions), 1))])
     ELSE None

\* the keys of functionsByFile in insertion order
filesInOrder(allFunctions) ==
  Dedup([i \in 1..Len(SelectSeq(allFunctions, LAMBDA f : f.type # "event")) |->
           SelectSeq(allFunctions, LAMBDA f : f.type # "event")[i].file])

isBetterMatch_atLeastHalf(matchRatio, bestMatchRatio) ==
  /\ matchRatio.num * bestMatchRatio.den > bestMatchRatio.num * matchRatio.den
  /\ 2 * matchRatio.num >= matchRatio.den

\* matchRatio > bestMatchRatio && matchRatio > 0.5
isBetterMatch(matchRatio, bestMatchRatio) ==
  /\ matchRatio.num * bestMatchRatio.den > bestMatchRatio.num * matchRatio.den
  /\ 2 * matchRatio.num > matchRatio.den

\* the loop of findByFunctionMatching over the remaining files
RECURSIVE scanFiles(_, _, _, _)
scanFiles(files, interfaceFunctions, allFunctions, bestMatch) ==
  IF Len(files) = 0 THEN bestMatch
  ELSE LET fileName == Head(files)
           fileFunctions == SelectSeq(allFunctions, LAMBDA f : f.file = fileName /\ f.type # "event")
           matchingFunctions == matchFunctions(interfaceFunctions, fileFunctions)
           matchRatio == Ratio(Len(matchingFunctions), Len(interfaceFunctions))
           bestMatchRatio == IF IsSome(bestMatch) THEN The(bestMatch).matchRatio ELSE Ratio(0, 1)
           better == isBetterMatch(matchRatio, bestMatchRatio)
       IN IF Includes(ToLowerCase(fileName), "interface") \/ StartsWith(fileName, "I")
            THEN scanFiles(Tail(files), interfaceFunctions, allFunctions, bestMatch)
            ELSE scanFiles(Tail(files), interfaceFunctions, allFunctions,
                           IF better
                             THEN Some([contractName |-> RemoveFirst(fileName, ".sol"),
                                        file |-> fileName,
                                        functions |-> fileFunctions,
                                        implementedFunctions |-> matchingFunctions,
                                        matchRatio |-> matchRatio])
                             ELSE bestMatch)

findByFunctionMatching(interfaceFunctions, allFunctions) ==
  IF Len(interfaceFunctions) = 0 THEN None
  ELSE scanFiles(filesInOrder(allFunctions), interfaceFunctions, allFunctions, None)

\* the loop of findImplementation over names: the first binding that
\* findContractByName returns
RECURSIVE firstByName(_, _, _)
firstByName(names, allFunctions, interfaceFunctions) ==
  IF Len(names) = 0 THEN None
  ELSE LET found == findContractByName(Head(names), allFunctions, interfaceFunctions)
       IN IF IsSome(found) THEN found
          ELSE firstByName(Tail(names), allFunctions, interfaceFunctions)

\* findImplementation: the candidate names in order, then function matching
findImplementation(interfaceName, allFunctions) ==
  LET interfaceFunctions == getInterfaceFunctions(interfaceName, allFunctions)
      byName == firstByName(candidateNamesOf(interfaceName), allFunctions, interfaceFunctions)
  IN IF IsSome(byName) THEN byName
     ELSE findByFunctionMatching(interfaceFunctions, allFunctions)

InitMatch ==
  /\ rpc = "new"
  /\ knownFunctions = <<>>
  /\ ifaceName = Unset
  /\ triedName = Unset
  /\ implementation = None
  /\ nameQueue = <<>>
  /\ repoGiven = FALSE
  /\ stageLog = <<>>
  /\ resolveLog = <<>>

\* the analyzer hands its function objects and an interface name to the resolver
DrawFunctions ==
  /\ rpc = "new"
  /\ \E n \in 0..MaxFunctions :
       \E fs \in [1..n -> FunctionUniverse] : knownFunctions' = fs
  /\ ifaceName' \in InterfaceNames
  /\ rpc' = "drawn"
  /\ UNCHANGED <<triedName, implementation, nameQueue, repoGiven, stageLog, resolveLog>>

\* one iteration of the candidate loop of findImplementation
FindContractByName ==
  /\ rpc = "drawn"
  /\ \E contractName \in Range(candidateNamesOf(ifaceName)) :
       /\ triedName' = contractName
       /\ implementation' = findContractByName(contractName, knownFunctions,
                                               getInterfaceFunctions(ifaceName, knownFunctions))
  /\ rpc' = "byName"
  /\ UNCHANGED <<knownFunctions, ifaceName, nameQueue, repoGiven, stageLog, resolveLog>>

\* strategy 5 of findImplementation
FindByFunctionMatching ==
  /\ rpc = "drawn"
  /\ implementation' = findByFunctionMatching(getInterfaceFunctions(ifaceName, knownFunctions),
                                              knownFunctions)
  /\ rpc' = "byMatching"
  /\ UNCHANGED <<knownFunctions, ifaceName, triedName, nameQueue, repoGiven, stageLog, resolveLog>>

-----------------------------------------------------------------------------
(* ImplementationResolver.resolveImplementations on one interface call that *)
(* has a definition                                                         *)

\* the names of generateImplementationNames, in order
generateImplementationNames(interfaceName) ==
  LET baseName == StripI(interfaceName)
  IN << baseName,
        baseName \o "Impl",
        baseName \o "Contract",
        baseName \o "Implementation",
        "Concrete" \o baseName,
        interfaceName \o "Impl",
        ToLowerCase(baseName),
        ToLowerCase(SubSeq(baseName, 1, 1)) \o Substring(baseName, 1) >>

\* what parseImplementationFiles may extract from the files fetched for a
\* candidate name: nothing, or a function of the first fetched file
FetchedFunctions(candidateName) ==
  {<<>>} \cup {<<f>> : f \in [name : {"getValue"}, parameters : {<<>>, <<"uint256">>},
                                type : {"function"}, file : {candidateName \o ".sol"}]}

\* resolveImplementations calls findImplementation, which starts its loop over candidateNames
ResolveStart ==
  /\ rpc = "drawn"
  /\ repoGiven' \in BOOLEAN
  /\ nameQueue' = candidateNamesOf(ifaceName)
  /\ rpc' = "names"
  /\ UNCHANGED <<knownFunctions, ifaceName, triedName, implementation, stageLog, resolveLog>>

\* candidateLoopReturns of a loop that tries every candidate name
candidateLoopReturns_never(found) == FALSE

\* the loop over candidateNames returns the first binding that findContractByName gives
candidateLoopReturns(found) == IsSome(found)

\* the next candidate name of findImplementation: findContractByName returns a
\* binding, which findImplementation returns, or null, and the loop goes on
TryCandidateName ==
  /\ rpc = "names"
  /\ Len(nameQueue) > 0
  /\ LET candidateName == Head(nameQueue)
         found == findContractByName(candidateName, knownFunctions,
                                     getInterfaceFunctions(ifaceName, knownFunctions))
     IN /\ stageLog' = Append(stageLog, [stage |-> "name", name |-> candidateName])
        /\ triedName' = candidateName
        /\ implementation' = found
        /\ IF candidateLoopReturns(found)
             THEN rpc' = "done" /\ nameQueue' = <<>>
             ELSE rpc' = "names" /\ nameQueue' = Tail(nameQueue)
  /\ UNCHANGED <<knownFunctions, ifaceName, repoGiven, resolveLog>>

\* afterLocalSearch of a resolver that fetches whenever baseRepoInfo is given
afterLocalSearch_alwaysRemote(found, repoIsGiven) == IF repoIsGiven THEN "remote" ELSE "done"

\* resolveImplementations after findImplementation has returned: it calls
\* fetchImplementationContract if the result is null and baseRepoInfo is given
afterLocalSearch(found, repoIsGiven) == IF ~IsSome(found) /\ repoIsGiven THEN "remote" ELSE "done"

\* no candidate name gave a binding: findImplementation returns the result of
\* findByFunctionMatching; resolveImplementations goes on to fetch only if
\* that is null and baseRepoInfo is given
GlobalScan ==
  /\ rpc = "names"
  /\ Len(nameQueue) = 0
  /\ LET found == findByFunctionMatching(getInterfaceFunctions(ifaceName, knownFunctions),
                                         knownFunctions)
     IN /\ stageLog' = Append(stageLog, [stage |-> "scan", name |-> ""])
        /\ implementation' = found
        /\ rpc' = afterLocalSearch(found, repoGiven)
  /\ UNCHANGED <<knownFunctions, ifaceName, triedName, nameQueue, repoGiven, resolveLog>>

\* fetchImplementationContract: the first generated name whose fetched and
\* parsed files match a function of the interface gives the binding; all
\* fetches may fail and all names may pass without a match
\* largest number of interface calls handed to resolveImplementations
MaxCalls == 2

\* largest number of function objects handed to resolveImplementations
MaxKnown == 2

\* detected interface calls: calls of patterns 1 and 2, whose interface is
\* the name of an interface, and calls of pattern 3, whose interface is the
\* name of the variable
DetectedCalls ==
  [interface : InterfaceNames, methodName : {"getValue", "set"}, pattern : {"direct"}]
    \cup [interface : {"oracle"}, methodName : {"getValue", "set"}, pattern : {"method"}]

\* lists of detected interface calls with different composite names, the
\* first of them a call of the interface drawn or of the variable
InterfaceCallLists(first) ==
  {calls \in UNION {SeqsOfLen(DetectedCalls, n) : n \in 0..MaxCalls} :
     /\ \A i, j \in 1..Len(calls) : calls[i] = calls[j] => i = j
     /\ Len(calls) > 0 => calls[1].interface \in {first, "oracle"}}

\* the definition that the detector attaches to a call: for patterns 1 and 2
\* a function of that name in a file of the interface, for pattern 3 a
\* function of that name in an interface-like file (the function objects
\* here have no signature)
hasCallDefinition(call, allFunctions) ==
  \E i \in 1..Len(allFunctions) :
    /\ allFunctions[i].name = call.methodName
    /\ IF call.pattern = "method"
         THEN \/ Includes(ToLowerCase(allFunctions[i].file), "interface")
              \/ StartsWith(allFunctions[i].file, "I")
         ELSE Includes(allFunctions[i].file, call.interface)

extractInterfaceName(interfaceIdentifier) ==
  IF Includes(RemoveFirst(interfaceIdentifier, ".sol"), "/")
    THEN LastPart(RemoveFirst(interfaceIdentifier, ".sol"))
    ELSE RemoveFirst(interfaceIdentifier, ".sol")

\* the loop of resolveImplementations: for every call with a definition the
\* local search, and the fetch sequence if that found nothing and
\* baseRepoInfo is given. What a fetch sequence finds goes to
\* newlyFetchedFunctions and the Map only, so it changes no later search.
RECURSIVE resolutionsOf(_, _, _)
resolutionsOf(interfaceCalls, allFunctions, repoIsGiven) ==
  IF Len(interfaceCalls) = 0 THEN <<>>
  ELSE IF ~hasCallDefinition(Head(interfaceCalls), allFunctions)
    THEN resolutionsOf(Tail(interfaceCalls), allFunctions, repoIsGiven)
  ELSE <<[stage |-> "local", interface |-> extractInterfaceName(Head(interfaceCalls).interface)]>>
       \o (IF afterLocalSearch(findImplementation(extractInterfaceName(Head(interfaceCalls).interface),
                                                   allFunctions), repoIsGiven) = "remote"
             THEN <<[stage |-> "remote", interface |-> extractInterfaceName(Head(interfaceCalls).interface)]>>
             ELSE <<>>)
       \o resolutionsOf(Tail(interfaceCalls), allFunctions, repoIsGiven)

\* one resolveImplementations call on a list of interface calls
ResolveImplementations ==
  /\ rpc = "drawn"
  /\ Len(knownFunctions) <= MaxKnown
  /\ \E interfaceCalls \in InterfaceCallLists(ifaceName), repoIsGiven \in BOOLEAN :
       /\ repoGiven' = repoIsGiven
       /\ resolveLog' = resolutionsOf(interfaceCalls, knownFunctions, repoIsGiven)
  /\ rpc' = "resolved"
  /\ UNCHANGED <<knownFunctions, ifaceName, triedName, implementation, nameQueue, stageLog>>

FetchImplementationContract ==
  /\ rpc = "remote"
  /\ stageLog' = Append(stageLog, [stage |-> "remote", name |-> ""])
  /\ \/ implementation' = None
     \/ \E k \in 1..Len(generateImplementationNames(ifaceName)) :
          LET candidateName == generateImplementationNames(ifaceName)[k]
              interfaceFunctions == getInterfaceFunctions(ifaceName, knownFunctions)
          IN \E newFunctions \in FetchedFunctions(candidateName) :
               LET matchingFunctions == matchFunctions(interfaceFunctions, newFunctions)
               IN /\ Len(matchingFunctions) > 0
                  /\ implementation' =
                       Some([contractName |-> candidateName,
                             file |-> candidateName \o ".sol",
                             functions |-> newFunctions,
                             implementedFunctions |-> matchingFunctions,
                             matchRatio |-> Ratio(Len(matchingFunctions), Max(Len(interfaceFunctions), 1))])
  /\ rpc' = "done"
  /\ UNCHANGED <<knownFunctions, ifaceName, triedName, nameQueue, repoGiven, resolveLog>>

-----------------------------------------------------------------------------
(* InterfaceDetector.extractInterfaceCalls on the source text of a function. *)
(* A source text is the name in the function header and the statements of    *)
(* the body, each statement one of the forms the patterns tell apart:        *)
(*   call    name(args)                                                      *)
(*   direct  iface(address).name(args)                                       *)
(*   decl    iface variable = iface(address);                                *)
(*   member  variable.name(args)                                             *)

\* largest number of statements in the body of the start function
MaxStatements == 2

StatementUniverse ==
  { [kind |-> "call",   iface |-> "",       variable |-> "",      name |-> "balanceOf"],
    [kind |-> "direct", iface |-> "IERC20", variable |-> "",      name |-> "transferFrom"],
    [kind |-> "decl",   iface |-> "IERC20", variable |-> "token", name |-> ""],
    [kind |-> "member", iface |-> "",       variable |-> "token", name |-> "transferFrom"] }

SourceBodies == UNION {SeqsOfLen(StatementUniverse, n) : n \in 0..MaxStatements}

\* the signature of the function object contains "external"
entityIsExternal == [e \in SourceEntities |-> e # "balanceOf"]

\* the file tests of the patterns, for every function object:
\* f.file.includes(word) for the interface names of the texts and the two
\* names of pattern 4
FileWords == {st.iface : st \in StatementUniverse} \cup {"IDrand", "IGas", NoDef}

fileIncludes == [e \in SourceEntities |-> [w \in FileWords |-> Includes(entityFile[e], w)]]

\* the statements of sourceCode that have one of the kinds
StatementsOf(sourceCode, kinds) == SelectSeq(sourceCode.body, LAMBDA st : st.kind \in kinds)

\* allFunctions.find(test), passing the function objects that pass the test:
\* the first of them in the list, or undefined
FindFirst(fs, passing) ==
  LET hits == {i \in 1..Len(fs) : fs[i] \in passing}
  IN IF hits = {} THEN NoDef
     ELSE fs[CHOOSE i \in hits : \A j \in hits : i <= j]

\* interfaceCalls.some(call => call.name === callName)
SomeNamed(interfaceCalls, callName) ==
  \E i \in 1..Len(interfaceCalls) : interfaceCalls[i].name = callName

InterfaceCall(interfaceName, methodName, definition, pattern) ==
  [interface |-> interfaceName, name |-> interfaceName \o "." \o methodName,
   methodName |-> methodName, definition |-> definition,
   hasDefinition |-> definition # NoDef, pattern |-> pattern, implementation |-> None]

\* pattern 1: every iface(address).name( of the text is pushed, repeats included
findDirectInterfaceCalls(sourceCode, fs, interfaceCalls) ==
  LET direct == StatementsOf(sourceCode, {"direct"})
  IN interfaceCalls \o
       [i \in 1..Len(direct) |->
          InterfaceCall(direct[i].iface, direct[i].name,
                        FindFirst(fs, {f \in Range(fs) : fileIncludes[f][direct[i].iface]
                                                 /\ entityName[f] = direct[i].name}),
                        "direct")]

\* a Map without entries
NoVariables == [v \in {} |-> ""]

\* newInterfaceVariables that keeps the entries of the Map the call before left
newInterfaceVariables_kept(left) == left

\* const interfaceVariables = new Map(): whatever Map the call before filled is not seen
newInterfaceVariables(left) == NoVariables

\* the first loop of pattern 2: interfaceVariables.set(varName, interfaceName)
\* for every declaration of the text, a later one replacing an earlier one
RECURSIVE setInterfaceVariables(_, _)
setInterfaceVariables(decls, interfaceVariables) ==
  IF Len(decls) = 0 THEN interfaceVariables
  ELSE setInterfaceVariables(Tail(decls),
         [v \in {Head(decls).variable} |-> Head(decls).iface] @@ interfaceVariables)

\* the Map after the first loop of pattern 2
interfaceVariablesOf(sourceCode, left) ==
  setInterfaceVariables(StatementsOf(sourceCode, {"decl"}), newInterfaceVariables(left))

\* interfaceVariables.get(variableName)
interfaceVariablesGet(interfaceVariables, variableName) ==
  IF variableName \in DOMAIN interfaceVariables THEN interfaceVariables[variableName] ELSE NoDef

skippedVariables == {"msg", "block", "tx", "this", "super", "$"}

\* pattern 2: calls on variables declared with an interface cast
RECURSIVE variableCallsLoop(_, _, _, _)
variableCallsLoop(interfaceVariables, members, fs, interfaceCalls) ==
  IF Len(members) = 0 THEN interfaceCalls
  ELSE LET st == Head(members)
           interfaceName == interfaceVariablesGet(interfaceVariables, st.variable)
           interfaceFunction == FindFirst(fs, {f \in Range(fs) : entityName[f] = st.name
                                                       /\ fileIncludes[f][interfaceName]})
           push == /\ st.variable \notin skippedVariables
                   /\ interfaceName # NoDef
                   /\ ~SomeNamed(interfaceCalls, interfaceName \o "." \o st.name)
       IN variableCallsLoop(interfaceVariables, Tail(members), fs,
            IF push THEN Append(interfaceCalls,
                                InterfaceCall(interfaceName, st.name, interfaceFunction, "variable"))
            ELSE interfaceCalls)

findVariableInterfaceCalls(sourceCode, fs, interfaceCalls, left) ==
  variableCallsLoop(interfaceVariablesOf(sourceCode, left),
                    StatementsOf(sourceCode, {"member"}), fs, interfaceCalls)

\* the file test of patterns 3 and 4
isInterfaceFile(file) ==
  Includes(ToLowerCase(file), "interface") \/ StartsWith(file, "I")

\* the file test, for every function object
inInterfaceFile == [e \in SourceEntities |-> isInterfaceFile(entityFile[e])]

\* interfaceFunc.file.replace('.sol', ''), for every function object
interfaceOfFile == [e \in SourceEntities |-> RemoveFirst(entityFile[e], ".sol")]

\* pattern 3: calls on any variable of a method that an interface-like function object defines
RECURSIVE methodCallsLoop(_, _, _)
methodCallsLoop(members, fs, interfaceCalls) ==
  IF Len(members) = 0 THEN interfaceCalls
  ELSE LET st == Head(members)
           interfaceFunction == FindFirst(fs, {f \in Range(fs) : entityName[f] = st.name
                                                       /\ (inInterfaceFile[f]
                                                           \/ entityIsExternal[f])})
           push == /\ st.variable \notin skippedVariables
                   /\ interfaceFunction # NoDef
                   /\ ~SomeNamed(interfaceCalls, st.variable \o "." \o st.name)
       IN methodCallsLoop(Tail(members), fs,
            IF push THEN Append(interfaceCalls,
                                InterfaceCall(st.variable, st.name, interfaceFunction, "method"))
            ELSE interfaceCalls)

findMethodCalls(sourceCode, fs, interfaceCalls) ==
  methodCallsLoop(StatementsOf(sourceCode, {"member"}), fs, interfaceCalls)

\* the words of the text that an opening parenthesis follows: the name in
\* the header, called names, cast names and method names
CalledWords(sourceCode) ==
  {sourceCode.name}
  \cup {sourceCode.body[i].name : i \in {j \in 1..Len(sourceCode.body) :
                                           sourceCode.body[j].kind \in {"call", "direct", "member"}}}
  \cup {sourceCode.body[i].iface : i \in {j \in 1..Len(sourceCode.body) :
                                            sourceCode.body[j].kind \in {"direct", "decl"}}}

\* pattern 4: function objects of interface-like files whose name is called in the text
RECURSIVE byNameLoop(_, _, _)
byNameLoop(sourceCode, potentialInterfaceFunctions, interfaceCalls) ==
  IF Len(potentialInterfaceFunctions) = 0 THEN interfaceCalls
  ELSE LET interfaceFunc == Head(potentialInterfaceFunctions)
           alreadyAdded == \E i \in 1..Len(interfaceCalls) :
                             interfaceCalls[i].methodName = entityName[interfaceFunc]
           push == entityName[interfaceFunc] \in CalledWords(sourceCode) /\ ~alreadyAdded
       IN byNameLoop(sourceCode, Tail(potentialInterfaceFunctions),
            IF push THEN Append(interfaceCalls,
                                InterfaceCall(interfaceOfFile[interfaceFunc],
                                              entityName[interfaceFunc], interfaceFunc, "byname"))
            ELSE interfaceCalls)

findByFunctionName(sourceCode, fs, interfaceCalls) ==
  byNameLoop(sourceCode,
             SelectSeq(fs, LAMBDA f : \/ inInterfaceFile[f]
                                      \/ fileIncludes[f]["IDrand"]
                                      \/ fileIncludes[f]["IGas"]),
             interfaceCalls)

\* the orders of report.functions: the start function and any of the others
ReportOrders ==
  {fs \in UNION {SeqsOfLen(SourceEntities, n) : n \in 1..3} :
     /\ \A i, j \in 1..Len(fs) : i # j => fs[i] # fs[j]
     /\ \E i \in 1..Len(fs) : fs[i] = "transfer"}

\* the function object of an entity as the resolver reads it
functionObject(e) ==
  [name |-> entityName[e], parameters |-> <<>>, type |-> "function", file |-> entityFile[e]]

\* the interface names that the texts refer to
DetectedInterfaces == {st.iface : st \in StatementUniverse} \ {""}

\* findImplementation for every interface of the texts and every list of
\* function objects
implementationsOf ==
  [fs \in ReportOrders |->
     [interfaceName \in DetectedInterfaces |->
        findImplementation(interfaceName, [i \in 1..Len(fs) |-> functionObject(fs[i])])]]

\* the Map implementationMap that resolveImplementations fills: an entry for
\* the interface of every call with a definition for which an implementation
\* is found
implementationMap(interfaceCalls, fs) ==
  [interfaceName \in {c.interface : c \in {x \in Range(interfaceCalls) :
                                            /\ x.hasDefinition
                                            /\ x.interface \in DetectedInterfaces
                                            /\ IsSome(implementationsOf[fs][x.interface])}}
     |-> The(implementationsOf[fs][interfaceName])]

\* ImplementationResolver.resolveImplementations is an async function: what
\* the caller holds after the call is a Promise, which settles to the object
\* {implementations, newFunctions}
resolveImplementations(interfaceCalls, fs) ==
  [promise |-> TRUE, settlesTo |-> [implementations |-> implementationMap(interfaceCalls, fs)]]

\* value.size > 0 as extractInterfaceCalls evaluates it: an object without a
\* property size gives undefined, and undefined > 0 is false
sizeIsPositive(value) ==
  IF "size" \in DOMAIN value THEN value.size > 0 ELSE FALSE

enhanceInterfaceCallsWithImplementations(interfaceCalls, implementations) ==
  [i \in 1..Len(interfaceCalls) |->
     IF interfaceCalls[i].interface \in DOMAIN implementations
       THEN [interfaceCalls[i] EXCEPT !.implementation =
               Some([contractName |-> implementations[interfaceCalls[i].interface].contractName,
                     file |-> implementations[interfaceCalls[i].interface].file,
                     matchRatio |-> implementations[interfaceCalls[i].interface].matchRatio])]
       ELSE interfaceCalls[i]]

\* the calls of the four patterns, handed on for the implementations: the
\* value of resolveImplementations is used without await
withImplementations(interfaceCalls, fs, repoIsGiven) ==
  IF repoIsGiven /\ sizeIsPositive(resolveImplementations(interfaceCalls, fs))
    THEN enhanceInterfaceCallsWithImplementations(interfaceCalls,
                                                  resolveImplementations(interfaceCalls, fs).settlesTo.implementations)
    ELSE interfaceCalls

\* the four patterns in order, then the implementations if baseRepoInfo is
\* given; left is the Map of pattern 2 as the call before filled it
extractInterfaceCalls(sourceCode, fs, left, repoIsGiven) ==
  withImplementations(
    findByFunctionName(sourceCode, fs,
      findMethodCalls(sourceCode, fs,
        findVariableInterfaceCalls(sourceCode, fs,
          findDirectInterfaceCalls(sourceCode, fs, <<>>), left))),
    fs, repoIsGiven)

-----------------------------------------------------------------------------
(* GitHubSolidityAnalyzer: the function objects of report.functions          *)

\* extractFunctionName of the expression a FunctionCall node calls; the
\* visit reaches the outer call of a direct interface call before the cast
callsOfStatement(st) ==
  CASE st.kind = "call"   -> <<st.name>>
    [] st.kind = "direct" -> <<st.name, st.iface>>
    [] st.kind = "decl"   -> <<st.iface>>
    [] st.kind = "member" -> <<st.variable \o "." \o st.name>>

\* findFunctionCalls over the body
RECURSIVE findFunctionCalls(_)
findFunctionCalls(body) ==
  IF Len(body) = 0 THEN <<>>
  ELSE callsOfStatement(Head(body)) \o findFunctionCalls(Tail(body))

\* findFunctionDefinition: the first function object of that name. No
\* signature of the function objects here starts with another one's name.
findFunctionDefinition(fs, functionName) ==
  FindFirst(fs, {f \in Range(fs) : entityName[f] = functionName})

\* resolvedCalls as generateReport adds them to a function object
resolvedCallsOf(fs, body) ==
  LET calls == findFunctionCalls(body)
  IN [i \in 1..Len(calls) |->
        [name |-> calls[i],
         definition |-> findFunctionDefinition(fs, calls[i]),
         isExternal |-> findFunctionDefinition(fs, calls[i]) = NoDef]]

\* the source text of a function object: the interface member is a
\* declaration, the others but the start function have an empty body here
sourceCodeOf(e, body) == [name |-> entityName[e], body |-> IF e = "transfer" THEN body ELSE <<>>]

\* the first call of buildCallTree on the functions of a report and the
\* start function found in it. The definition of a resolved call is the
\* function object as parsed, which has no resolvedCalls.
BuildFromSource(repoIsGiven) ==
  /\ tpc = "new"
  /\ treeRepoGiven' = repoIsGiven
  /\ \E body \in SourceBodies, fs \in ReportOrders, src \in BOOLEAN, maxDepth \in 0..MaxTreeDepth :
       /\ sourceBody' = body
       /\ reportFunctions' = fs
       /\ funcs' = [e \in SourceEntities |->
                      [resolvedCalls |-> IF e = "transfer" THEN resolvedCallsOf(fs, body) ELSE <<>>,
                       interfaceCalls |-> extractInterfaceCalls(sourceCodeOf(e, body), fs, NoVariables,
                                                                repoIsGiven)]]
       /\ includeSourceCode' = src
       /\ rootFn' = "transfer"
       /\ maxDepthT' = maxDepth
       /\ pending' = Some([fn |-> "transfer", depth |-> 0, visited |-> {}, parent |-> 0])
  /\ tpc' = "run"
  /\ UNCHANGED <<tree, stack>>

\* extractFunction calls buildCallTree(report.functions, targetFunction, maxDepth)
BuildFromReport == BuildFromSource(FALSE)

\* a caller that hands buildCallTree the repository coordinates as well
BuildWithCoordinates == BuildFromSource(TRUE)

-----------------------------------------------------------------------------
(* Repeated invocations of extractInterfaceCalls and findImplementation on *)
(* one detector object and one resolver object                             *)

\* largest number of invocations on the same objects
MaxInvocations == 3

\* largest number of statements of a text handed to the detector
MaxTextStatements == 1

TextBodies == UNION {SeqsOfLen(StatementUniverse, n) : n \in 0..MaxTextStatements}

\* findImplementation for the interface of the texts, for every list of function objects
implementationOf ==
  [fs \in ReportOrders |->
     findImplementation("IERC20", [i \in 1..Len(fs) |-> functionObject(fs[i])])]

InitDetect ==
  /\ textFunctions = <<>>
  /\ leftVariables = NoVariables
  /\ leftBefore = NoVariables
  /\ remembered = None
  /\ lastInvocation = None
  /\ invocations = 0

\* one call of extractInterfaceCalls on a source text and one call of
\* findImplementation for the interface of the text, with the function
\* objects of the analysis
Invoke ==
  /\ invocations < MaxInvocations
  /\ \E body \in TextBodies,
        fs \in (IF invocations = 0 THEN ReportOrders ELSE {textFunctions}),
        keep \in BOOLEAN :
       LET sourceCode == [name |-> "transfer", body |-> body]
       IN /\ textFunctions' = fs
          /\ lastInvocation' =
               Some([sourceCode |-> sourceCode,
                     interfaceCalls |-> extractInterfaceCalls(sourceCode, fs, leftVariables, FALSE),
                     implementation |-> implementationOf[fs]])
          /\ leftVariables' = interfaceVariablesOf(sourceCode, leftVariables)
          /\ leftBefore' = leftVariables
          /\ remembered' = IF keep \/ ~IsSome(lastInvocation) THEN remembered ELSE lastInvocation
  /\ invocations' = invocations + 1


-----------------------------------------------------------------------------
(* The ingestion as a function of the order of the seed's imports and of    *)
(* what the locations hold: analyzeSingleFile after the seed has been       *)
(* parsed, with the outcome of each fetch and of each parse fixed           *)

\* largest number of locations at which fetchSourceCode succeeds
MaxFetchable == 2

\* largest number of import directives in one fetched file
MaxFileImports == 1

\* import paths of the seed and of the fetched files: two local paths with
\* one base name and an external path
OrderDeps ==
  { "./Library.sol",
    "./utils/Library.sol",
    "@openzeppelin/contracts/token/ERC20/ERC20.sol" }

OrderSeed == "https://github.com/o/r/blob/main/contracts/Token.sol"

\* this.isExternalDependency and this.resolveDependencyPaths, tabulated over OrderDeps
orderExternal == [dependencyPath \in OrderDeps |-> isExternalDependency(dependencyPath)]

orderUrlsOf ==
  [dependencyPath \in OrderDeps |-> resolveDependencyPaths(dependencyPath, seedOf[OrderSeed].repo)]

\* the locations that a fetch may be sent to
OrderUrls == UNION {Range(orderUrlsOf[d]) : d \in {e \in OrderDeps : ~orderExternal[e]}}

\* path.basename(extractFilename(url)), tabulated over those locations
orderNameOf == [url \in OrderUrls |-> Basename(extractFilename(url))]

\* the location that fetchSourceCode requests for a url (convertToRawUrl),
\* tabulated over those urls
orderLocationOf == [url \in OrderUrls |-> convertToRawUrl(url)]

OrderLocations == {orderLocationOf[url] : url \in OrderUrls}

\* what the locations hold: the locations at which a fetch succeeds, and for
\* each of them whether the text parses and the imports of the text
OrderWorlds ==
  UNION { [fetchable : {ls}, content : [ls -> [parses : BOOLEAN, imports : InjSeqs(OrderDeps, MaxFileImports)]]]
            : ls \in {s \in SUBSET OrderLocations : Cardinality(s) <= MaxFetchable} }

\* the loop over potentialUrls of tryFetchDependency: the first url whose fetch succeeds
RECURSIVE fetchFirst(_, _)
fetchFirst(potentialUrls, fetchable) ==
  IF Len(potentialUrls) = 0 THEN None
  ELSE IF orderLocationOf[Head(potentialUrls)] \in fetchable THEN Some(Head(potentialUrls))
  ELSE fetchFirst(Tail(potentialUrls), fetchable)

\* tryFetchDependency on a resolver with the given sets: the sets after the
\* call and the file returned (None for null)
tryFetchDependency(dependencyPath, resolver, fetchable) ==
  IF dependencyPath \in resolver.processed \/ dependencyPath \in resolver.failed
    THEN [resolver |-> resolver, fileData |-> None]
  ELSE IF orderExternal[dependencyPath]
    THEN [resolver |-> [resolver EXCEPT !.failed = @ \cup {dependencyPath}], fileData |-> None]
  ELSE LET fetched == fetchFirst(orderUrlsOf[dependencyPath], fetchable)
       IN [resolver |-> IF fetched = None
                          THEN [resolver EXCEPT !.failed = @ \cup {dependencyPath}]
                          ELSE [resolver EXCEPT !.processed = @ \cup {dependencyPath}],
           fileData |-> fetched]

\* resolveDependencies: tryFetchDependency for each dependency in order,
\* collecting the files returned
RECURSIVE resolveDependencies(_, _, _, _)
\* the body of the loop after tryFetchDependency has returned
collectResolved(deps, fetchable, resolved, call) ==
  resolveDependencies(deps, call.resolver, fetchable,
                      IF IsSome(call.fileData) THEN Append(resolved, The(call.fileData)) ELSE resolved)

resolveDependencies(deps, resolver, fetchable, resolved) ==
  IF Len(deps) = 0 THEN [resolver |-> resolver, resolved |-> resolved]
  ELSE collectResolved(Tail(deps), fetchable, resolved, tryFetchDependency(Head(deps), resolver, fetchable))

\* the files of result.resolved whose base name was not processed before,
\* each base name once, in order, as the locations they were fetched from
RECURSIVE newFilesOf(_, _)
newFilesOf(resolved, seen) ==
  IF Len(resolved) = 0 THEN <<>>
  ELSE LET normalizedName == orderNameOf[Head(resolved)]
       IN IF normalizedName \in seen
            THEN newFilesOf(Tail(resolved), seen)
            ELSE <<Head(resolved)>> \o newFilesOf(Tail(resolved), seen \cup {normalizedName})

\* resolveDependenciesRecursively on an analyzer in state an; the entities of
\* the Repository are identified by the locations of the files analysed
RECURSIVE resolveDependenciesRecursively(_, _, _, _)
\* the part of resolveDependenciesRecursively after the await of resolveDependencies
afterResolve(maxDepth, depth, an, world, result) ==
  IF Len(result.resolved) = 0 THEN [an EXCEPT !.resolver = result.resolver]
  ELSE LET newFiles == newFilesOf(result.resolved, an.processedFiles)
           parsed == SelectSeq([i \in 1..Len(newFiles) |-> orderLocationOf[newFiles[i]]],
                               LAMBDA l : world.content[l].parses)
           after == [resolver |-> result.resolver,
                     dependencies |-> AnalyzeAll(an.dependencies, parsed, world.content),
                     processedFiles |-> an.processedFiles \cup {orderNameOf[newFiles[i]] : i \in 1..Len(newFiles)},
                     entities |-> an.entities \cup Range(parsed)]
       IN IF Len(newFiles) > 0 /\ Len(after.dependencies) > Len(an.dependencies)
            THEN resolveDependenciesRecursively(maxDepth, depth + 1, after, world)
            ELSE after

resolveDependenciesRecursively(maxDepth, depth, an, world) ==
  IF depth >= maxDepth \/ Len(an.dependencies) = 0 THEN an
  ELSE afterResolve(maxDepth, depth, an, world,
                    resolveDependencies(an.dependencies, an.resolver, world.fetchable, <<>>))

\* the analyzer after the seed with the given imports has been analysed
afterSeed(imports) ==
  [resolver |-> [processed |-> {}, failed |-> {}],
   dependencies |-> AddAll(<<>>, imports),
   processedFiles |-> {seedOf[OrderSeed].basename},
   entities |-> {convertToRawUrl(OrderSeed)}]

\* what a run leaves: the processed set, the failed set and the entities
outcomeOf(an) ==
  [processed |-> an.resolver.processed, failed |-> an.resolver.failed, entities |-> an.entities]

InitOrder == orderRun = None

\* two runs on new analyzers over the same locations, the seed listing the
\* same two imports in the one and in the other order
IngestInOrders ==
  /\ orderRun = None
  /\ \E world \in OrderWorlds, maxDepth \in 1..MaxIngestDepth, a, b \in OrderDeps :
       /\ a # b
       /\ orderRun' = Some([imports |-> <<a, b>>, world |-> world, maxDepth |-> maxDepth,
                            first |-> outcomeOf(resolveDependenciesRecursively(maxDepth, 0, afterSeed(<<a, b>>), world)),
                            second |-> outcomeOf(resolveDependenciesRecursively(maxDepth, 0, afterSeed(<<b, a>>), world))])

-----------------------------------------------------------------------------
(* Specifications *)

NextDeps ==
  \/ (AnalyzeSeedFails /\ UNCHANGED <<pathVars, treeVars, matchVars, detectVars, orderVars>>)
  \/ (AnalyzeSeed /\ UNCHANGED <<pathVars, treeVars, matchVars, detectVars, orderVars>>)
  \/ (EnterRound /\ UNCHANGED <<pathVars, treeVars, matchVars, detectVars, orderVars>>)
  \/ (TryFetchBegin /\ UNCHANGED <<pathVars, treeVars, matchVars, detectVars, orderVars>>)
  \/ (FetchAttempt /\ UNCHANGED <<pathVars, treeVars, matchVars, detectVars, orderVars>>)
  \/ (RoundEnd /\ UNCHANGED <<pathVars, treeVars, matchVars, detectVars, orderVars>>)
  \/ (Report /\ UNCHANGED <<pathVars, treeVars, matchVars, detectVars, orderVars>>)
  \/ (LocateStart /\ UNCHANGED <<pathVars, treeVars, matchVars, detectVars, orderVars>>)

NextRuns ==
  \/ NextDeps
  \/ (CallAgain /\ UNCHANGED <<pathVars, treeVars, matchVars, detectVars, orderVars>>)

NextPaths ==
  \/ (DrawPath /\ UNCHANGED <<depVars, treeVars, matchVars, detectVars, orderVars>>)
  \/ (Classify /\ UNCHANGED <<depVars, treeVars, matchVars, detectVars, orderVars>>)
  \/ (ResolvePaths /\ UNCHANGED <<depVars, treeVars, matchVars, detectVars, orderVars>>)

NextMatch ==
  \/ (DrawFunctions /\ UNCHANGED <<pathVars, depVars, treeVars, detectVars, orderVars>>)
  \/ (FindContractByName /\ UNCHANGED <<pathVars, depVars, treeVars, detectVars, orderVars>>)
  \/ (FindByFunctionMatching /\ UNCHANGED <<pathVars, depVars, treeVars, detectVars, orderVars>>)
  \/ (ResolveStart /\ UNCHANGED <<pathVars, depVars, treeVars, detectVars, orderVars>>)
  \/ (TryCandidateName /\ UNCHANGED <<pathVars, depVars, treeVars, detectVars, orderVars>>)
  \/ (GlobalScan /\ UNCHANGED <<pathVars, depVars, treeVars, detectVars, orderVars>>)
  \/ (FetchImplementationContract /\ UNCHANGED <<pathVars, depVars, treeVars, detectVars, orderVars>>)
  \/ (ResolveImplementations /\ UNCHANGED <<pathVars, depVars, treeVars, detectVars, orderVars>>)

NextDetect ==
  \/ (Invoke /\ UNCHANGED <<pathVars, depVars, treeVars, matchVars, orderVars>>)

NextTree ==
  \/ (BuildStart /\ UNCHANGED <<pathVars, depVars, matchVars, detectVars, orderVars>>)
  \/ (BuildFromReport /\ UNCHANGED <<pathVars, depVars, matchVars, detectVars, orderVars>>)
  \/ (BuildWithCoordinates /\ UNCHANGED <<pathVars, depVars, matchVars, detectVars, orderVars>>)
  \/ (BuildCallGraph /\ UNCHANGED <<pathVars, depVars, matchVars, detectVars, orderVars>>)
  \/ (Enter /\ UNCHANGED <<pathVars, depVars, matchVars, detectVars, orderVars>>)
  \/ (StaticCall /\ UNCHANGED <<pathVars, depVars, matchVars, detectVars, orderVars>>)
  \/ (AugmentAndReturn /\ UNCHANGED <<pathVars, depVars, matchVars, detectVars, orderVars>>)

\* the state after construction of the analyzer, its resolver, the tree
\* builder and the implementation resolver
Init == InitPaths /\ InitDeps /\ InitTree /\ InitMatch /\ InitDetect /\ InitOrder

\* one analyzeSingleFile run of a fresh analyzer
SpecDeps == Init /\ [][NextDeps]_vars

\* the pure path functions applied to drawn inputs
SpecPaths == Init /\ [][NextPaths]_vars

\* the matching functions of the implementation resolver on drawn function objects
SpecMatch == Init /\ [][NextMatch]_vars

\* one buildCallTree call on drawn function objects
SpecTree == Init /\ [][NextTree]_vars

SpecDetect == Init /\ [][NextDetect]_vars

SpecRuns == Init /\ [][NextRuns]_vars

NextOrder ==
  \/ (IngestInOrders /\ UNCHANGED <<pathVars, depVars, treeVars, matchVars, detectVars>>)

\* the ingestion applied to one set of imports in two orders
SpecOrder == Init /\ [][NextOrder]_vars

\* a run of either procedure: an ingestion or a call-tree construction
NextRun ==
  \/ (tpc = "new" /\ NextDeps)
  \/ (ipc = "new" /\ NextTree)

\* the steps of a procedure that has been started
StepRun ==
  \/ (ipc # "new" /\ NextDeps)
  \/ (tpc # "new" /\ NextTree)

\* The program is single-threaded and a started procedure keeps executing;
\* every awaited fetch completes, with a response or with an error (the
\* request has a timeout).
SpecRun == Init /\ [][NextRun]_vars /\ WF_vars(StepRun)

-----------------------------------------------------------------------------
(* Properties of the Dependency Resolver *)

\* the fetchSourceCode calls made for import path p, in order
FetchesOf(p) == SelectSeq(fetchLog, LAMBDA e : e.dep = p)

\* C1 - Idempotence of import resolution: all fetches ever made for one import
\* path belong to a single tryFetchDependency call, and of two calls for the
\* same path the later one never starts a fetch-attempt sequence (a processed
\* path is not fetched again, a failed path is not retried).
C1_Idempotence ==
  /\ \A i, j \in 1..Len(fetchLog) :
       fetchLog[i].dep = fetchLog[j].dep => fetchLog[i].call = fetchLog[j].call
  /\ \A k1, k2 \in 1..Len(callLog) :
       (k1 < k2 /\ callLog[k1].dep = callLog[k2].dep) => Len(callLog[k2].urls) = 0

\* a path whose candidates all failed has been handed to tryFetchDependency again
C1_Witness ==
  \E k1, k2 \in 1..Len(callLog) :
    /\ k1 < k2
    /\ callLog[k1].dep = callLog[k2].dep
    /\ Len(callLog[k1].urls) > 0
    /\ callLog[k1].dep \in failedDependencies
    /\ Len(FetchesOf(callLog[k1].dep)) = Len(callLog[k1].urls)

\* the potentialUrls of the call that fetched for p (none if no call fetched)
CandidatesOf(p) ==
  LET calls == {k \in 1..Len(callLog) : callLog[k].dep = p /\ Len(callLog[k].urls) > 0}
  IN IF calls = {} THEN <<>> ELSE callLog[CHOOSE k \in calls : TRUE].urls

\* C2 - Ordered fallback: the fetches made for an import path follow its
\* candidate list in order; every fetch but the last one failed (a failure is
\* swallowed and the next candidate tried, nothing is fetched after a success);
\* the path is in the processed set exactly when its last fetch succeeded, and
\* it is in the failed set only when every candidate was fetched and failed.
C2_OrderedFallback ==
  \A p \in DepUniverse :
    LET fetches == FetchesOf(p)
        urls == CandidatesOf(p)
    IN /\ Len(fetches) <= Len(urls)
       /\ \A i \in 1..Len(fetches) : fetches[i].url = urls[i]
       /\ \A i \in 1..(Len(fetches) - 1) : ~fetches[i].ok
       /\ p \in processedDependencies <=> (Len(fetches) > 0 /\ fetches[Len(fetches)].ok)
       /\ p \in failedDependencies =>
            (Len(fetches) = Len(urls) /\ \A i \in 1..Len(fetches) : ~fetches[i].ok)
       /\ (p # tfDep /\ Len(fetches) > 0 /\ ~fetches[Len(fetches)].ok) => p \in failedDependencies

\* a path was resolved by a later candidate after earlier candidates failed,
\* before the last of its candidates was reached
C2_Witness ==
  \E p \in processedDependencies :
    /\ Len(FetchesOf(p)) >= 2
    /\ Len(FetchesOf(p)) < Len(CandidatesOf(p))
    /\ FetchesOf(p)[Len(FetchesOf(p))].ok

\* C10 - An import classified as external is never fetched: no fetch is made
\* for it, it is never in the processed set, a tryFetchDependency call on it
\* leaves it in the failed set, and the report lists it under external and
\* not under unreachable.
C10_ExternalNeverFetched ==
  \A p \in DepUniverse :
    isExternalDependency(p) =>
      /\ Len(FetchesOf(p)) = 0
      /\ p \notin processedDependencies
      /\ (\E k \in 1..Len(callLog) : callLog[k].dep = p) => p \in failedDependencies
      /\ (IsSome(report) /\ p \in failedDependencies) =>
            (p \in The(report).external /\ p \notin The(report).unreachable)

\* the report of a run that handed an external import to tryFetchDependency
C10_Witness ==
  /\ IsSome(report)
  /\ \E p \in The(report).external :
       /\ isExternalDependency(p)
       /\ \E k \in 1..Len(callLog) : callLog[k].dep = p

-----------------------------------------------------------------------------
(* Properties of the candidate generation *)

\* C9 - For every import path that isExternalDependency reports as external,
\* the candidate list returned by resolveDependencyPaths is empty.
C9_ExternalHasNoCandidates ==
  (IsSome(pfExternal) /\ IsSome(pfUrls) /\ The(pfExternal)) => Len(The(pfUrls)) = 0

-----------------------------------------------------------------------------
(* Properties of the Call Tree Builder *)

\* the proper ancestors of node i
RECURSIVE Ancestors(_, _)
Ancestors(t, i) ==
  IF t[i].parent = 0 THEN {} ELSE {t[i].parent} \cup Ancestors(t, t[i].parent)

Children(t, n) == {j \in 1..Len(t) : t[j].parent = n}

\* C3 - Termination: the ingestion starts at most maxDepth resolution rounds,
\* the recursion of buildCallTree never nests deeper than maxDepth, and every
\* started run halts: the ingestion ends with a report (or the fatal seed
\* error) and buildCallTree returns a finite tree, whatever cycles the import
\* graph and the call graph contain.
C3_Termination ==
  /\ [](rounds <= maxDepthIn /\ Len(stack) <= maxDepthT)
  /\ (ipc # "new") ~> (ipc \in {"done", "fatal"})
  /\ (tpc # "new") ~> (tpc = "done")

\* an ingestion that used all its rounds, or a finished tree of a cyclic call graph
C3_Witness ==
  \/ (ipc = "done" /\ maxDepthIn = MaxIngestDepth /\ rounds = maxDepthIn)
  \/ (tpc = "done" /\ \E i \in 1..Len(tree) :
        tree[i].kind = "cutoff" /\ \E a \in Ancestors(tree, i) : tree[a].fn = tree[i].fn)

\* C4 - Depth invariant: the root has depth 0, every other node (subtree,
\* external leaf, interface node) has its parent's depth + 1, no node is
\* deeper than maxDepth, and getMaxDepth of the returned tree is at most maxDepth.
C4_DepthInvariant ==
  /\ \A i \in 1..Len(tree) :
       /\ tree[i].parent = 0 => tree[i].depth = 0
       /\ tree[i].parent # 0 => tree[i].depth = tree[tree[i].parent].depth + 1
       /\ tree[i].depth <= maxDepthT
  /\ tpc = "done" => getMaxDepth(tree, 1) <= maxDepthT

\* a returned tree whose deepest node, an external leaf, lies at the depth bound
C4_Witness ==
  /\ tpc = "done"
  /\ maxDepthT >= 2
  /\ getMaxDepth(tree, 1) = maxDepthT
  /\ \E i \in 1..Len(tree) : tree[i].kind = "external" /\ tree[i].depth = maxDepthT

\* C5 - Cycle safety: a callee whose name is already on the current path is
\* emitted as a leaf with zero children and is not expanded; in particular
\* for A -> B -> A with maxDepth = 5 the A under B is a childless leaf.
C5_CycleSafety ==
  \A i \in 1..Len(tree) :
    (tree[i].fn # NoDef /\ \E a \in Ancestors(tree, i) : tree[a].fn # NoDef /\ tree[a].name = tree[i].name)
      => (tree[i].kind = "cutoff" /\ Children(tree, i) = {})

\* the tree returned for A -> B -> A from A with maxDepth = 5
C5_Witness ==
  /\ tpc = "done"
  /\ maxDepthT = 5
  /\ rootFn = "a1"
  /\ funcs["a1"].resolvedCalls = <<[name |-> "B", isExternal |-> FALSE, definition |-> "b"]>>
  /\ funcs["b"].resolvedCalls = <<[name |-> "A", isExternal |-> FALSE, definition |-> "a1"]>>
  /\ Len(tree) = 3
  /\ tree[2].name = "B" /\ tree[2].parent = 1 /\ tree[2].kind = "expanded"
  /\ tree[3].name = "A" /\ tree[3].parent = 2 /\ tree[3].kind = "cutoff" /\ tree[3].depth = 2
  /\ Children(tree, 3) = {}

C7_ChildDedup ==
  \A i, j \in 1..Len(tree) :
    (i # j /\ tree[i].parent = tree[j].parent /\ tree[i].kind = "interface")
      => tree[i].name # tree[j].name

\* an expanded node whose interface calls were augmented and one of them was
\* skipped because a static child has its name
C7_Witness ==
  /\ tpc = "done"
  /\ \E n \in 1..Len(tree) :
       /\ tree[n].kind = "expanded"
       /\ augmentGate(includeSourceCode, tree[n].depth, maxDepthT)
       /\ \E q \in 1..Len(funcs[tree[n].fn].interfaceCalls) :
            \E j \in Children(tree, n) :
              tree[j].kind = "external" /\ tree[j].name = funcs[tree[n].fn].interfaceCalls[q].name

-----------------------------------------------------------------------------
(* Properties of the Implementation Resolver *)

\* the interface member m has a counterpart among the candidate members:
\* same name, same parameter count, equal parameter types position by position
HasCounterpart(m, candidates) ==
  \E j \in 1..Len(candidates) :
    /\ candidates[j].name = m.name
    /\ Len(candidates[j].parameters) = Len(m.parameters)
    /\ \A i \in 1..Len(m.parameters) : candidates[j].parameters[i] = m.parameters[i]

\* C8 - Match bounds: the matchRatio of every binding that findContractByName
\* or findByFunctionMatching returns lies in [0,1], and it is 1 exactly when
\* every member of the interface has a counterpart in the candidate's members.
C8_MatchBounds ==
  IsSome(implementation) =>
    LET binding == The(implementation)
        members == getInterfaceFunctions(ifaceName, knownFunctions)
    IN /\ binding.matchRatio.den > 0
       /\ 0 <= binding.matchRatio.num
       /\ binding.matchRatio.num <= binding.matchRatio.den
       /\ (binding.matchRatio.num = binding.matchRatio.den)
            <=> (\A k \in 1..Len(members) : HasCounterpart(members[k], binding.functions))

\* a binding with a ratio strictly between 0 and 1: some member of the
\* interface has a counterpart in the candidate and some member has none
C8_Witness ==
  /\ IsSome(implementation)
  /\ 0 < The(implementation).matchRatio.num
  /\ The(implementation).matchRatio.num < The(implementation).matchRatio.den
  /\ \E k \in 1..Len(getInterfaceFunctions(ifaceName, knownFunctions)) :
       ~HasCounterpart(getInterfaceFunctions(ifaceName, knownFunctions)[k], The(implementation).functions)

-----------------------------------------------------------------------------
(* Scenario C: ./Library.sol imported from a file in contracts/ *)

ScenarioCImport == "./Library.sol"

\* the importing file lies in contracts/ of repository o/r, branch main
ScenarioCRepo == baseRepoInfo.basePath = "contracts"

\* C11 - Scenario C: for the import ./Library.sol of a file whose base path is
\* contracts, the first location fetched is contracts/Library.sol and, when
\* that fetch fails, the next one is Library.sol at the repository root; when
\* the first fails and the second succeeds the import is in the processed
\* set and not in the failed set, the stored file is the one fetched from the
\* root, and nothing is fetched for the import after it.
C11_ScenarioC ==
  ScenarioCRepo =>
    LET fetches == FetchesOf(ScenarioCImport)
    IN /\ Len(fetches) >= 1 =>
            convertToRawUrl(fetches[1].url) = RawPrefix \o "/o/r/main/contracts/Library.sol"
       /\ (Len(fetches) = 1 /\ ~fetches[1].ok) => tfDep = ScenarioCImport
       /\ Len(fetches) >= 2 =>
            convertToRawUrl(fetches[2].url) = RawPrefix \o "/o/r/main/Library.sol"
       /\ (Len(fetches) >= 2 /\ ~fetches[1].ok /\ fetches[2].ok) =>
            /\ ScenarioCImport \in processedDependencies
            /\ ScenarioCImport \notin failedDependencies
            /\ \A i \in 1..Len(resolvedFiles) :
                 resolvedFiles[i][1] = ScenarioCImport => resolvedFiles[i][2] = fetches[2].url
            /\ \E i \in 1..Len(resolvedFiles) : resolvedFiles[i][1] = ScenarioCImport
            /\ Len(fetches) = 2

\* the run of scenario C: contracts/Library.sol failed, Library.sol was fetched
\* from the root, and the import was handed to tryFetchDependency again later
C11_Witness ==
  /\ ScenarioCRepo
  /\ Len(FetchesOf(ScenarioCImport)) = 2
  /\ ~FetchesOf(ScenarioCImport)[1].ok
  /\ FetchesOf(ScenarioCImport)[2].ok
  /\ ScenarioCImport \in processedDependencies
  /\ Cardinality({k \in 1..Len(callLog) : callLog[k].dep = ScenarioCImport}) >= 2

-----------------------------------------------------------------------------
(* Scenario D: IOracle declares getValue(), Oracle.sol implements it *)

\* the known entities of scenario D, in any order: the single member
\* getValue() of the interface in IOracle.sol, and getValue() in Oracle.sol
ScenarioD ==
  /\ ifaceName = "IOracle"
  /\ Len(knownFunctions) = 2
  /\ Range(knownFunctions) =
       {[name |-> "getValue", parameters |-> <<>>, type |-> "function", file |-> f] :
          f \in {"IOracle.sol", "Oracle.sol"}}

\* C12 - Scenario D, for every order of the known entities: the binding that
\* the resolution of IOracle ends with has matchRatio 1 and names Oracle.sol,
\* not the interface's own file, as the implementation file.
C12_ScenarioD ==
  (ScenarioD /\ rpc = "done") =>
    /\ IsSome(implementation)
    /\ The(implementation).matchRatio.num = The(implementation).matchRatio.den
    /\ The(implementation).file = "Oracle.sol"

-----------------------------------------------------------------------------
(* Scenario A: transfer calls balanceOf and IERC20(token).transferFrom(...) *)

\* the body of transfer in scenario A
ScenarioABody ==
  << [kind |-> "call",   iface |-> "",       variable |-> "", name |-> "balanceOf"],
     [kind |-> "direct", iface |-> "IERC20", variable |-> "", name |-> "transferFrom"] >>

\* buildCallTree has returned the tree of scenario A
ScenarioABuilt ==
  /\ tpc = "done"
  /\ rootFn = "transfer"
  /\ sourceBody = ScenarioABody
  /\ includeSourceCode
  /\ maxDepthT = 3
  /\ \E i \in 1..Len(reportFunctions) : reportFunctions[i] = "balanceOf"

\* the nodes of tree.calls of the root
RootCalls == {i \in 1..Len(tree) : tree[i].parent = 1}

\* C13 - Scenario A: the tree built from transfer with maxDepth = 3 has
\* exactly two children of the root: the internal leaf balanceOf and the
\* interface node IERC20.transferFrom.
C13_ScenarioA ==
  ScenarioABuilt =>
    /\ Cardinality(RootCalls) = 2
    /\ \E i \in RootCalls : /\ tree[i].name = "balanceOf"
                            /\ tree[i].kind = "expanded"
                            /\ Children(tree, i) = {}
    /\ \E i \in RootCalls : /\ tree[i].name = "IERC20.transferFrom"
                            /\ tree[i].kind = "interface"

-----------------------------------------------------------------------------
(* Determinism of the detector and of the resolver *)

-----------------------------------------------------------------------------
(* Parse errors in fetched dependencies *)

\* the imports that were resolved to the file
ImportsResolvedTo(file) ==
  {resolvedFiles[i][1] : i \in {j \in 1..Len(resolvedFiles) : filenameOf[resolvedFiles[j][2]] = file}}

\* C15 - A parse error in a fetched dependency is not fatal: the import that
\* was resolved to the file stays in the processed set and does not enter the
\* failed set, the file is not analysed and adds no contract and no import,
\* the other new files of the same round are parsed and analysed, and the
\* ingestion does not end in a fatal error (the run can still fail later to
\* find its start function).
C15_ParseErrorNonFatal ==
  \A e \in parseLog :
    e.threw =>
      /\ ImportsResolvedTo(e.file) # {}
      /\ \A dep \in ImportsResolvedTo(e.file) :
           dep \in processedDependencies /\ dep \notin failedDependencies
      /\ ~e.analysed /\ e.imports = {}
      /\ e.file \notin contracts /\ e.file \notin analyzedFiles
      /\ \A o \in parseLog : (o.round = e.round /\ ~o.threw) => (o.analysed /\ o.file \in contracts)
      /\ ipc = "fatal" => fatalCause = "start function"

\* a round in which the parse of the first new file threw and the second new
\* file was analysed, with the report generated in the end
C15_Witness ==
  /\ ipc = "done"
  /\ IsSome(report)
  /\ \E e, o \in parseLog :
       /\ e.round = o.round
       /\ e.threw /\ o.analysed /\ o.imports # {}
       /\ \E i, j \in 1..Len(resolvedFiles) :
            /\ i < j
            /\ filenameOf[resolvedFiles[i][2]] = e.file
            /\ filenameOf[resolvedFiles[j][2]] = o.file

-----------------------------------------------------------------------------
(* Fatal errors of a run *)

\* a dependency could not be fetched from any url, or its parse threw
DependencyFailed ==
  \/ \E dep \in failedDependencies : ~isExternalDependency(dep)
  \/ \E e \in parseLog : e.threw

\* C16 - A run ends in a fatal error only when the seed cannot be fetched,
\* the seed does not parse, or the start function is not found; a failed
\* fetch or parse of a dependency never ends the run.
C16_FatalOnlyThreeCauses ==
  ipc = "fatal" =>
    /\ fatalCause \in {"seed fetch", "seed parse", "start function"}
    /\ DependencyFailed => fatalCause = "start function"

\* C16 (amended) - A run ends in a fatal error only when the seed cannot be
\* fetched, the seed is not a Solidity file by its name, the seed does not
\* parse, or the start function is not found; a failed fetch or parse of a
\* dependency never ends the run.
C16_FatalOnlyFourCauses ==
  ipc = "fatal" =>
    /\ fatalCause \in {"seed fetch", "seed not solidity", "seed parse", "start function"}
    /\ DependencyFailed => fatalCause = "start function"

\* a run that lost one import to failed fetches and one fetched file to a
\* parse error, and still returned its report and found the start function
C16_Witness ==
  /\ ipc = "done"
  /\ targetFunction = "found"
  /\ fatalCause = "none"
  /\ \E dep \in failedDependencies : ~isExternalDependency(dep)
  /\ \E e \in parseLog : e.threw

-----------------------------------------------------------------------------
(* Isolation of the runs on one analyzer object *)

\* the seed of the run has been analysed and no import has been looked at yet
RunBegins == ipc \in {"enter", "report"} /\ rounds = 0 /\ currentDepth = 0

\* C17 - Every run starts with nothing that an earlier run recorded: when
\* the seed has been analysed and before the first import is looked at, the
\* processed and the failed import sets and the resolved files are empty, the
\* contracts are those of the seed, and the processed file names are those of
\* the seed alone - also in a second run on the same analyzer object.
C17_RunsStartEmpty ==
  RunBegins =>
    /\ processedDependencies = {}
    /\ failedDependencies = {}
    /\ resolvedFiles = <<>>
    /\ processedFiles = {Basename(f) : f \in contracts}
    /\ analyzedFiles = contracts

-----------------------------------------------------------------------------
(* Order of the imports *)

\* C18 - Order independence of ingestion: two runs over the same locations
\* (the outcome of each fetch and of each parse fixed) whose seeds list the
\* same distinct import paths in different orders end with the same processed
\* set, the same failed set and the same entities in the Repository.
C18_OrderIndependent ==
  IsSome(orderRun) => The(orderRun).first = The(orderRun).second

-----------------------------------------------------------------------------
(* The candidate loop of findImplementation *)

\* the number of candidate names that the loop has tried
NamesTried == Cardinality({i \in 1..Len(stageLog) : stageLog[i].stage = "name"})

\* what findContractByName gives for the i-th candidate name of the interface
ScoreOfCandidate(i) ==
  findContractByName(candidateNamesOf(ifaceName)[i], knownFunctions,
                     getInterfaceFunctions(ifaceName, knownFunctions))

\* C19 - Greedy first match: findImplementation tries the candidate names in
\* list order; every name tried before the last gave no binding (it matched
\* no file or scored zero); the first name that gives a binding, whose
\* matchRatio is then > 0, ends the search with that binding and no later
\* name is tried; the global scan runs only when every candidate name gave no
\* binding; at most one binding is held for the interface.
C19_GreedyFirstMatch ==
  rpc \in {"names", "remote", "done"} =>
    LET names == candidateNamesOf(ifaceName)
    IN /\ NamesTried <= Len(names)
       /\ \A i \in 1..NamesTried : stageLog[i] = [stage |-> "name", name |-> names[i]]
       /\ \A i \in 1..(NamesTried - 1) : ScoreOfCandidate(i) = None
       /\ (NamesTried > 0 /\ IsSome(ScoreOfCandidate(NamesTried))) =>
            /\ The(ScoreOfCandidate(NamesTried)).matchRatio.num > 0
            /\ Len(stageLog) = NamesTried
            /\ nameQueue = <<>>
            /\ rpc = "done"
            /\ implementation = ScoreOfCandidate(NamesTried)
       /\ (\E j \in 1..Len(stageLog) : stageLog[j].stage = "scan") =>
            /\ NamesTried = Len(names)
            /\ \A i \in 1..Len(names) : ScoreOfCandidate(i) = None
       /\ Len(implementation) <= 1

\* the search has ended at a candidate name although a later name of the list
\* would have scored higher
C19_Witness ==
  /\ rpc = "done"
  /\ NamesTried > 0
  /\ Len(stageLog) = NamesTried
  /\ IsSome(implementation)
  /\ \E j \in (NamesTried + 1)..Len(candidateNamesOf(ifaceName)) :
       /\ IsSome(ScoreOfCandidate(j))
       /\ The(ScoreOfCandidate(j)).matchRatio.num * The(implementation).matchRatio.den
            > The(implementation).matchRatio.num * The(ScoreOfCandidate(j)).matchRatio.den

-----------------------------------------------------------------------------
(* The stages of resolveImplementations for one interface *)

\* the positions of the log at which the given stage ran
StagesAt(stage) == {i \in 1..Len(stageLog) : stageLog[i].stage = stage}

\* what the global scan gives on the function objects of the run
ScanResult ==
  findByFunctionMatching(getInterfaceFunctions(ifaceName, knownFunctions), knownFunctions)

\* C20 (as stated) - Ordering of the stages: the local name-candidate search
\* comes first, remote resolution next, and the global scan runs only after
\* remote resolution has run and produced no match: every scan in the log has
\* a remote resolution before it, and every name tried comes before both.
C20_ScanOnlyAfterRemote ==
  /\ \A i \in StagesAt("name") : \A j \in StagesAt("remote") \cup StagesAt("scan") : i < j
  /\ \A j \in StagesAt("scan") : \E i \in StagesAt("remote") : i < j

\* C20 (amended) - Ordering of the stages: the local name-candidate search
\* comes first; the global scan runs next, whenever no name candidate gave a
\* binding; remote resolution is attempted only directly after a scan that
\* gave no binding, and only when repository coordinates are given, and then
\* always; each of the two stages runs at most once.
C20_RemoteOnlyAfterScan ==
  /\ \A i \in StagesAt("name") : \A j \in StagesAt("remote") \cup StagesAt("scan") : i < j
  /\ Cardinality(StagesAt("scan")) <= 1
  /\ Cardinality(StagesAt("remote")) <= 1
  /\ \A j \in StagesAt("scan") :
       /\ NamesTried = Len(candidateNamesOf(ifaceName))
       /\ \A i \in 1..NamesTried : ScoreOfCandidate(i) = None
  /\ \A j \in StagesAt("remote") :
       /\ j - 1 \in StagesAt("scan")
       /\ repoGiven
       /\ ScanResult = None
  /\ rpc = "done" =>
       /\ (\A i \in 1..NamesTried : ScoreOfCandidate(i) = None) => StagesAt("scan") # {}
       /\ (StagesAt("scan") # {} /\ ScanResult = None /\ repoGiven) => StagesAt("remote") # {}

\* a run in which no name candidate and no scanned file gave a binding and
\* the remote resolution ran last and gave one
C20_Witness ==
  /\ rpc = "done"
  /\ StagesAt("scan") # {}
  /\ StagesAt("remote") = {Len(stageLog)}
  /\ IsSome(implementation)

-----------------------------------------------------------------------------
(* Implementation bindings of interface nodes *)

\* the interface calls of the function that a node of the tree hangs under
CallsAbove(i) == Range(funcs[tree[tree[i].parent].fn].interfaceCalls)

\* the tree was built from a report with the repository coordinates given
BuiltWithCoordinates == tpc # "new" /\ treeRepoGiven /\ reportFunctions # <<>>

\* C21: when buildCallTree is given the repository coordinates, every
\* interface node of a detected call that has a definition and whose
\* interface has an implementation with matchRatio > 0 carries a binding
\* that names the file and the ratio of that implementation.
C21_BindingsAttached ==
  BuiltWithCoordinates =>
    \A i \in DOMAIN tree :
      tree[i].kind = "interface" /\ ~tree[i].external =>
        \A c \in CallsAbove(i) :
          ( /\ c.name = tree[i].name
            /\ c.interface \in DetectedInterfaces
            /\ IsSome(implementationsOf[reportFunctions][c.interface])
            /\ The(implementationsOf[reportFunctions][c.interface]).matchRatio.num > 0 )
          => /\ IsSome(tree[i].implementation)
             /\ The(tree[i].implementation).file
                  = The(implementationsOf[reportFunctions][c.interface]).file
             /\ The(tree[i].implementation).matchRatio
                  = The(implementationsOf[reportFunctions][c.interface]).matchRatio

\* an interface node with a definition and a known implementation, under
\* coordinates, that carries no binding
C21_NodeWithoutBinding ==
  /\ BuiltWithCoordinates
  /\ \E i \in DOMAIN tree :
       /\ tree[i].kind = "interface" /\ ~tree[i].external
       /\ tree[i].implementation = None
       /\ \E c \in CallsAbove(i) :
            /\ c.name = tree[i].name
            /\ c.interface \in DetectedInterfaces
            /\ IsSome(implementationsOf[reportFunctions][c.interface])

-----------------------------------------------------------------------------
(* The list of the interface detector *)

IsPrefix(s, t) == Len(s) <= Len(t) /\ SubSeq(t, 1, Len(s)) = s

\* the lists after pattern 1, 2 and 3 for the text of a function of the report
AfterDirect(e) == findDirectInterfaceCalls(sourceCodeOf(e, sourceBody), reportFunctions, <<>>)
AfterVariable(e) ==
  findVariableInterfaceCalls(sourceCodeOf(e, sourceBody), reportFunctions, AfterDirect(e), NoVariables)
AfterMethod(e) == findMethodCalls(sourceCodeOf(e, sourceBody), reportFunctions, AfterVariable(e))

\* C22: the list that extractInterfaceCalls returns holds no two edges with
\* the same composite name interface.method, and every pattern only appends
\* to the list of the patterns before it.
C22_DetectorDedup ==
  (tpc # "new" /\ reportFunctions # <<>>) =>
    \A e \in DOMAIN funcs :
      /\ \A i, j \in 1..Len(funcs[e].interfaceCalls) :
           funcs[e].interfaceCalls[i].name = funcs[e].interfaceCalls[j].name => i = j
      /\ IsPrefix(AfterDirect(e), AfterVariable(e))
      /\ IsPrefix(AfterVariable(e), AfterMethod(e))
      /\ IsPrefix(AfterMethod(e), funcs[e].interfaceCalls)

\* the second half of C22 alone: every pattern only appends
C22_PatternsOnlyAppend ==
  (tpc # "new" /\ reportFunctions # <<>>) =>
    \A e \in DOMAIN funcs :
      /\ IsPrefix(AfterDirect(e), AfterVariable(e))
      /\ IsPrefix(AfterVariable(e), AfterMethod(e))
      /\ IsPrefix(AfterMethod(e), funcs[e].interfaceCalls)

-----------------------------------------------------------------------------
(* The order of the candidate list *)

\* the path strategies in the order that C23 gives them
ClaimedStrategies(cleanPath, basePath) ==
  FilterTruthy(
    << IF basePath # "" THEN basePath \o "/" \o cleanPath ELSE cleanPath,
       cleanPath,
       "contracts/" \o cleanPath,
       "src/" \o cleanPath,
       "lib/" \o cleanPath,
       IF StartsWith(cleanPath, "./") THEN Substring(cleanPath, 2) ELSE "",
       IF StartsWith(cleanPath, "../") THEN resolveRelativePath(cleanPath, basePath) ELSE "",
       "contracts/interfaces/" \o Basename(cleanPath),
       "contracts/utils/" \o Basename(cleanPath) >>)

ClaimedUrls(cleanPath, repo) ==
  [i \in 1..Len(ClaimedStrategies(cleanPath, repo.basePath)) |->
     strategyUrl(ClaimedStrategies(cleanPath, repo.basePath)[i], repo)]

MatchesCommonLibraryPrefix(cleanPath) ==
  \E i \in 1..Len(commonLibraries) : StartsWith(cleanPath, commonLibraries[i][1])

\* an import that is resolved against a repository, is not external and
\* matches no common-library prefix
LocalImportResolved ==
  /\ pfDep # Unset /\ IsSome(pfUrls) /\ pfRepo # NoRepo
  /\ ~isExternalDependency(StripQuotes(pfDep))
  /\ ~MatchesCommonLibraryPrefix(StripQuotes(pfDep))

\* C23: for every import that is not external and matches no common-library
\* prefix, resolveDependencyPaths returns a list without duplicates whose
\* first entry is the path relative to the directory of the importing file,
\* followed in this order by the repository-root path, the paths under
\* contracts/, src/ and lib/, the path without its leading ./, the
\* ..-resolved path and the basename guesses under contracts/interfaces/ and
\* contracts/utils/, also when the basename is a well-known filename.
C23_CandidatePriorityOrder ==
  LocalImportResolved =>
    /\ \A i, j \in 1..Len(The(pfUrls)) : The(pfUrls)[i] = The(pfUrls)[j] => i = j
    /\ Len(The(pfUrls)) > 0
    /\ The(pfUrls)[1] = ClaimedUrls(StripQuotes(pfDep), pfRepo)[1]
    /\ The(pfUrls) = Dedup(ClaimedUrls(StripQuotes(pfDep), pfRepo))

\* the same for the imports whose basename is no well-known filename
C23_OrderOfOtherImports ==
  (LocalImportResolved /\ LastPart(StripQuotes(pfDep)) \notin DOMAIN wellKnownContracts) =>
    /\ \A i, j \in 1..Len(The(pfUrls)) : The(pfUrls)[i] = The(pfUrls)[j] => i = j
    /\ Len(The(pfUrls)) > 0
    /\ The(pfUrls)[1] = ClaimedUrls(StripQuotes(pfDep), pfRepo)[1]
    /\ The(pfUrls) = Dedup(ClaimedUrls(StripQuotes(pfDep), pfRepo))

-----------------------------------------------------------------------------
(* Ingestion of every fetched file *)

\* the location of the file that tryFetchDependency returned for a processed import
FetchedLocation(d, world) == orderLocationOf[The(fetchFirst(orderUrlsOf[d], world.fetchable))]

\* every import that was fetched and whose text parses has its entities in the Repository
AllFetchedIngested(outcome, world) ==
  \A d \in outcome.processed :
    world.content[FetchedLocation(d, world)].parses => FetchedLocation(d, world) \in outcome.entities

\* C24: every dependency source that is fetched successfully in an ingestion
\* round and parses has its entities added to the Repository, whatever its
\* directory or file name; two resolved imports with one base file name in
\* different directories are both ingested.
C24_EveryFetchedFileIngested ==
  IsSome(orderRun) =>
    /\ AllFetchedIngested(The(orderRun).first, The(orderRun).world)
    /\ AllFetchedIngested(The(orderRun).second, The(orderRun).world)

-----------------------------------------------------------------------------
(* The global scan *)

\* the members of the interface that the scan compares with
ScanInterface == getInterfaceFunctions(ifaceName, knownFunctions)

\* the files of the known functions that are not events
ScannedFiles == {knownFunctions[i].file : i \in {j \in 1..Len(knownFunctions) : knownFunctions[j].type # "event"}}

InterfaceLike(file) == Includes(ToLowerCase(file), "interface") \/ StartsWith(file, "I")

\* the number of interface members that a file implements
Matched(file) ==
  Len(matchFunctions(ScanInterface,
                     SelectSeq(knownFunctions, LAMBDA f : f.file = file /\ f.type # "event")))

\* the place at which the scan meets a file
FirstAt(file) ==
  CHOOSE i \in 1..Len(knownFunctions) :
    /\ knownFunctions[i].file = file /\ knownFunctions[i].type # "event"
    /\ \A j \in 1..(i - 1) : ~(knownFunctions[j].file = file /\ knownFunctions[j].type # "event")

\* the files that the scan may accept
Acceptable == {file \in ScannedFiles : ~InterfaceLike(file) /\ 2 * Matched(file) > Len(ScanInterface)}

C25_WitnessHalf ==
  /\ rpc = "byMatching"
  /\ implementation = None
  /\ \E file \in ScannedFiles : ~InterfaceLike(file) /\ 2 * Matched(file) = Len(ScanInterface)
                                 /\ Len(ScanInterface) > 0

-----------------------------------------------------------------------------
(* Identity of the entities on a path *)

\* C26: below the depth bound, a statically resolved callee is a childless
\* cutoff leaf only if that same entity (file, name, signature) is already
\* on the path from the root to it; an entity that only shares its name
\* with one on the path is expanded.
C26_CutoffByIdentity ==
  \A i \in DOMAIN tree :
    (tree[i].kind = "cutoff" /\ tree[i].depth < maxDepthT) =>
      \E j \in Ancestors(tree, i) : tree[j].fn = tree[i].fn

-----------------------------------------------------------------------------
(* The gate of the interface augmentation *)

\* the children of node n that the loop over resolvedCalls emitted
StaticChildren(n) == {j \in Children(tree, n) : tree[j].kind # "interface"}

\* resolved call c of the function of node n has its child
HasStaticChild(n, c) ==
  IF ~c.isExternal /\ c.definition # NoDef
    THEN \E j \in StaticChildren(n) : tree[j].kind \in {"expanded", "cutoff"} /\ tree[j].fn = c.definition
    ELSE \E j \in StaticChildren(n) : tree[j].kind = "external" /\ tree[j].name = c.name

\* C27: interface nodes are appended only under a node that carries source
\* text and has depth < maxDepth - 1, so every interface node has depth
\* <= maxDepth - 1; the children of the resolved calls and the external
\* leaves are emitted for every expanded node, which has depth < maxDepth.
C27_AugmentationGate ==
  /\ \A i \in DOMAIN tree :
       tree[i].kind = "interface" =>
         /\ tree[i].parent # 0
         /\ tree[tree[i].parent].kind = "expanded"
         /\ includeSourceCode
         /\ tree[tree[i].parent].depth < maxDepthT - 1
         /\ tree[i].depth <= maxDepthT - 1
  /\ tpc = "done" =>
       \A n \in DOMAIN tree :
         tree[n].kind = "expanded" =>
           /\ tree[n].depth < maxDepthT
           /\ Cardinality(StaticChildren(n)) = Len(funcs[tree[n].fn].resolvedCalls)
           /\ \A c \in Range(funcs[tree[n].fn].resolvedCalls) : HasStaticChild(n, c)

\* a finished tree in which a node got an interface child next to a child of
\* a resolved call
C27_Witness ==
  /\ tpc = "done"
  /\ \E n \in DOMAIN tree :
       /\ \E i \in Children(tree, n) : tree[i].kind = "interface"
       /\ StaticChildren(n) # {}

\* a finished tree with a node at depth maxDepth - 1 that carries source text
\* with interface calls: it has the children of its resolved calls and no
\* interface child
C27_WitnessGateClosed ==
  /\ tpc = "done"
  /\ includeSourceCode
  /\ \E n \in DOMAIN tree :
       /\ tree[n].kind = "expanded"
       /\ tree[n].depth = maxDepthT - 1
       /\ Len(funcs[tree[n].fn].interfaceCalls) > 0
       /\ StaticChildren(n) # {}
       /\ \A i \in Children(tree, n) : tree[i].kind # "interface"

-----------------------------------------------------------------------------
(* Independence of the branches *)

\* the names on the path from the root to node n, n included
PathNames(n) == {tree[a].name : a \in Ancestors(tree, n) \cup {n}}

\* the names on the path from the root to the parent of node n
NamesAbove(n) == {tree[a].name : a \in Ancestors(tree, n)}

\* the elements of a set of numbers in increasing order
RECURSIVE Sorted(_)
Sorted(S) ==
  IF S = {} THEN <<>>
  ELSE <<CHOOSE x \in S : \A y \in S : x <= y>>
         \o Sorted(S \ {CHOOSE x \in S : \A y \in S : x <= y})

\* the subtree below node n, without depths and places
RECURSIVE Shape(_)
Shape(n) ==
  [name |-> tree[n].name, kind |-> tree[n].kind, fn |-> tree[n].fn,
   calls |-> [k \in 1..Cardinality(Children(tree, n)) |-> Shape(Sorted(Children(tree, n))[k])]]

\* node i lies in the branch that starts at child c
InBranch(i, c) == i = c \/ c \in Ancestors(tree, i)

\* nodes i and j lie in the branches of two different children of one node
InSiblingBranches(i, j) ==
  \E c, d \in DOMAIN tree :
    /\ c # d /\ tree[c].parent = tree[d].parent /\ tree[c].parent # 0
    /\ InBranch(i, c) /\ InBranch(j, d)

\* the set that a call in progress holds is the set of names on its path
VisitedIsPath ==
  /\ \A k \in DOMAIN stack : stack[k].visited = PathNames(stack[k].node)
  /\ IsSome(pending) =>
       The(pending).visited = IF The(pending).parent = 0 THEN {} ELSE PathNames(The(pending).parent)

-----------------------------------------------------------------------------
(* Resolutions per interface *)

\* C29: within one resolveImplementations call the implementation of an
\* interface is resolved at most once, by the local search and by the fetch
\* sequence, however many detected interface calls refer to that interface.
C29_OncePerInterface ==
  rpc = "resolved" =>
    \A i, j \in DOMAIN resolveLog :
      (resolveLog[i].interface = resolveLog[j].interface /\ resolveLog[i].stage = resolveLog[j].stage)
        => i = j

\* the part of C29 about the fetch sequences alone
C29_FetchOncePerInterface ==
  rpc = "resolved" =>
    \A i, j \in DOMAIN resolveLog :
      (resolveLog[i].stage = "remote" /\ resolveLog[j].stage = "remote"
         /\ resolveLog[i].interface = resolveLog[j].interface) => i = j

-----------------------------------------------------------------------------
(* The processed set and the failed set *)

\* C30: in every reachable state of a run no import path is in both the
\* processed set and the failed set, and both sets only grow: no step
\* removes a path from either of them.
C30_SetsDisjointAndGrow ==
  /\ [](processedDependencies \cap failedDependencies = {})
  /\ [][/\ processedDependencies \subseteq processedDependencies'
        /\ failedDependencies \subseteq failedDependencies']_vars

\* a run in its second round or later, when every import is handed to
\* tryFetchDependency again, with an import in each of the sets
C30_Witness ==
  /\ rounds >= 2
  /\ processedDependencies # {}
  /\ failedDependencies # {}
  /\ \E i, j \in DOMAIN callLog : i < j /\ callLog[i].dep = callLog[j].dep

====
